---- MODULE Spec2Model ----
(***************************************************************************)
(* A model of the deepvideo2 video pipeline.                               *)
(*                                                                         *)
(*   SpecTimeline  generate_video of make_videos.py: the two passes over   *)
(*                 the slides, the fitting of video and music and the      *)
(*                 composition.                                            *)
(*   SpecLegacy    generate_video of make_video.py, the earlier program.   *)
(*   SpecMatch     find_best_match over small file names and listings.     *)
(*   SpecBatch     main, process_scenario and the selection of scenarios   *)
(*                 of make_videos.py in its three modes.                   *)
(*   SpecConfig    main from its first line: the loading of the            *)
(*                 configuration, then SpecBatch.                          *)
(*   SpecResize    resize_video and the fitting of a slide's image.        *)
(*   SpecFormat    format_text_for_display of both programs.               *)
(*   SpecFonts     the font of a scenario, the text clip and the emoji     *)
(*                 layers of each slide.                                   *)
(*   SpecReset     reset.py / clean.py between runs of the batch.          *)
(*   SpecAssets    one scenario in make_voice_lines.py and make_images.py. *)
(*   SpecWebsocket the receive loop of get_images_from_websocket;          *)
(*                 SpecWebsocketFair adds that the loop keeps running.     *)
(*   SpecBatchFair SpecBatch where main keeps running.                     *)
(*   SpecLoadAll   load_all_configs of utils/config_utils.py.              *)
(*                                                                         *)
(* Time is counted in ticks of 0.05 s, the smallest amount the code uses   *)
(* (the trim of a narration clip's tail), so every duration of the model   *)
(* is an integer and sums are exact.                                       *)
(***************************************************************************)
EXTENDS Integers, Sequences, FiniteSets, TLC

VARIABLES
    pc,               \* position in the modelled function
    CONFIG,           \* CONFIG["video"]: the keys the configuration file sets
    use_voice_lines,  \* argument of generate_video (not --skip-voices)
    scenario,         \* the optional keys of the scenario document that are set
    slides,           \* scenario['slides']: the authored slides, in order
    voice_files,      \* voice_files[i]: the file <scenario>_slide_NN.wav
    i,                \* index of the slide a loop is at (1-based)
    content_duration,
    total_duration,
    video_clip,       \* the background video clip
    music_clip,       \* the background music clip
    current_time,
    all_clips,        \* visual layers, in the order they are appended
    audio_clips,      \* audio tracks, in the order they are appended
    final_clip,       \* the composition handed to write_videofile
    error,            \* the exception that left the function, "none" if none
    target,           \* find_best_match: the requested name
    options,          \* find_best_match: the names of the library directory
    result,           \* find_best_match: what it returned
    output,           \* output[s]: the file OUTPUT_DIR/<s>.mp4
    music_lib,        \* os.listdir(MUSIC_DIR)
    video_lib,        \* os.listdir(VIDEOS_DIR)
    mode,             \* what main was started to do: "all", "random", "single"
    force,            \* args.force
    max_videos,       \* args.num_videos
    videos_generated,
    unprocessed_scenarios, \* the list main iterates over
    idx,              \* position of the for loop in unprocessed_scenarios
    cur,              \* the scenario process_scenario was called with
    report,           \* how the last run of main ended
    attempts,         \* attempts[s]: calls of process_scenario in this run (history)
    rendered_ok,      \* the scenarios a render has completed for (history)
    config_file,      \* the file given with -c: "missing", "unparsable" or its keys
    vertical,         \* not args.horizontal
    target_resolution,\* <<width, height>> of the output frame
    clip_size,        \* <<clip.w, clip.h>> of the background video
    resized_clip,     \* resize_video: size of resized_clip
    crop,             \* resize_video: <<x1, y1>> of the crop
    cropped_clip,     \* resize_video: size of the clip it returns
    image_size,       \* size of the generated image of a slide
    image_clip,       \* size of the image clip as it is placed in the frame
    program,          \* format_text_for_display of "make_videos" or "make_video"
    text,             \* format_text_for_display: its argument, a sequence of characters
    formatted,        \* format_text_for_display: what it returned
    font_files,       \* the font files of the fonts directory
    use_consistent_font, \* CONFIG["video"]["use_consistent_font"]
    emoji_font_path,  \* get_emoji_font(): "file" or "None"
    slide_emojis,     \* slide_emojis[i]: slide.get('emoji') and how it renders
    scenario_font,    \* generate_video: the font chosen for the scenario
    has_video,        \* the scenario documents with the has_video key
    tool,             \* "voice" (make_voice_lines.py) or "image" (make_images.py)
    files,            \* files[i]: the asset file of slide i
    force_regenerate, \* args.force
    clean,            \* args.clean (make_voice_lines.py only)
    normalization_enabled,
    silence_trimming_enabled,
    generated_ok,     \* generated_ok[i]: whether the generation for slide i will succeed
    requested,        \* the slides a generation was requested for (history)
    timeout_counter,  \* get_images_from_websocket
    current_node,     \* get_images_from_websocket
    output_images,    \* get_images_from_websocket: number of images received
    config_listing,   \* load_all_configs: the .yaml files of the configs directory
    configs,          \* load_all_configs: the list it builds and returns
    position          \* load_all_configs: index of the list iterator

vars == <<pc, CONFIG, use_voice_lines, scenario, slides, voice_files, i, content_duration,
          total_duration, video_clip, music_clip, current_time, all_clips,
          audio_clips, final_clip, error, target, options, result, output,
          music_lib, video_lib, mode, force, max_videos, videos_generated,
          unprocessed_scenarios, idx, cur, report, attempts, rendered_ok,
          config_file, vertical, target_resolution, clip_size, resized_clip,
          crop, cropped_clip, image_size, image_clip, program, text, formatted,
          font_files, use_consistent_font, emoji_font_path, slide_emojis,
          scenario_font, has_video, tool, files, force_regenerate, clean,
          normalization_enabled, silence_trimming_enabled, generated_ok,
          requested, timeout_counter, current_node, output_images,
          config_listing, configs, position>>

matchVars == <<target, options, result>>

frameVars == <<vertical, target_resolution, clip_size, resized_clip, crop,
               cropped_clip, image_size, image_clip>>

formatVars == <<program, text, formatted>>

fontVars == <<font_files, use_consistent_font, emoji_font_path, slide_emojis,
              scenario_font>>

assetVars == <<tool, files, force_regenerate, clean, normalization_enabled,
               silence_trimming_enabled, generated_ok, requested>>

wsVars == <<timeout_counter, current_node, output_images>>

loadVars == <<config_listing, configs, position>>

(* what is on disk and what no step of a render changes *)
libVars == <<music_lib, video_lib, config_file, frameVars, formatVars, fontVars,
             has_video, assetVars, wsVars, loadVars>>

argVars == <<mode, force, max_videos>>

batchVars == <<output, libVars, argVars, videos_generated, unprocessed_scenarios,
               idx, cur, report, attempts, rendered_ok>>

(* a configuration file with every key main reads without a default *)
RequiredKeys == {"prompts", "imagemagick_binary", "videos_dir", "music_dir",
                 "output_videos"}

(* the merged configuration main gets from a file that has them all *)
ValidConfigFile == [state |-> "parsed", keys |-> RequiredKeys]

(* the frame before resize_video is called: vertical, full quality, in     *)
(* units of 120 pixels (lines 716-727)                                     *)
NoFrame ==
    /\ vertical = TRUE
    /\ target_resolution = <<9, 16>>
    /\ clip_size = <<0, 0>>
    /\ resized_clip = <<0, 0>>
    /\ crop = <<0, 0>>
    /\ cropped_clip = <<0, 0>>
    /\ image_size = <<0, 0>>
    /\ image_clip = <<0, 0>>

(* the variables of the other programs and functions, when they are not   *)
(* what is modelled                                                        *)
NoFormat == program = "make_videos" /\ text = <<>> /\ formatted = <<>>

NoFonts ==
    /\ font_files = {}
    /\ use_consistent_font = TRUE
    /\ emoji_font_path = "None"
    /\ slide_emojis = <<>>
    /\ scenario_font = "None"

NoAssets ==
    /\ tool = "voice"
    /\ files = <<>>
    /\ force_regenerate = FALSE
    /\ clean = FALSE
    /\ normalization_enabled = FALSE
    /\ silence_trimming_enabled = TRUE
    /\ generated_ok = <<>>
    /\ requested = {}

NoWebsocket == timeout_counter = 0 /\ current_node = "" /\ output_images = 0

NoLoadAll == config_listing = <<>> /\ configs = <<>> /\ position = 0

----------------------------------------------------------------------------
(* Bounds of the model *)

MaxSlides == 2
MaxSeconds == 2
MaxNarration == 30

(* Program constants, in ticks of 0.05 s *)

DefaultIntroDelay == 20
DefaultOutroDelay == 40
DefaultVoiceLineDelay == 10
TrimTail == 1
TrimThreshold == 2

Ticks(seconds) == 20 * seconds

(* Durations of narration files: 0.1 s (not above the trim threshold),     *)
(* 0.15 s (just above it), and one longer than a one-second slide.         *)
NarrationDurations == {TrimThreshold, TrimThreshold + 1, MaxNarration}

(* Durations of the background video and music files: shorter and longer   *)
(* than any composition of the model.                                      *)
SourceDurations == {10, 400}

(* What the configuration file may set under "video": nothing, or its own  *)
(* delays.                                                                 *)
NoKeys == [k \in {} |-> 0]

ConfigKeys == {"intro_delay", "outro_delay", "voice_line_delay"}
CustomConfig == [intro_delay |-> 0, outro_delay |-> 10, voice_line_delay |-> 4]
Configs == { NoKeys, [k \in ConfigKeys |-> CustomConfig[k]] }

----------------------------------------------------------------------------
(* Helpers *)

Get(cfg, key, default) == IF key \in DOMAIN cfg THEN cfg[key] ELSE default

Max(a, b) == IF a >= b THEN a ELSE b

RECURSIVE MaxEnd(_)
MaxEnd(clips) ==
    IF clips = <<>> THEN 0
    ELSE Max(Head(clips).start + Head(clips).duration, MaxEnd(Tail(clips)))

NoFile == [exists |-> FALSE, readable |-> FALSE, duration |-> 0]
CorruptFile == [exists |-> TRUE, readable |-> FALSE, duration |-> 0]
VoiceFiles ==
    {NoFile, CorruptFile}
    \cup {[exists |-> TRUE, readable |-> TRUE, duration |-> d] : d \in NarrationDurations}

Slides == [duration_seconds : {1, MaxSeconds}]

Clip(kind, slide, start, duration) ==
    [kind |-> kind, slide |-> slide, start |-> start, duration |-> duration]

intro_delay == Get(CONFIG, "intro_delay", DefaultIntroDelay)
outro_delay == Get(CONFIG, "outro_delay", DefaultOutroDelay)
voice_line_delay == Get(CONFIG, "voice_line_delay", DefaultVoiceLineDelay)

(* File names are sequences of characters; characters are numbers, in the  *)
(* order in which Python compares them.                                    *)
Alphabet == {1, 2}

Names(maxlen) == UNION {[1..n -> Alphabet] : n \in 0..maxlen}

(* What find_best_match returns: a name, or None *)
None == [is_none |-> TRUE, name |-> <<>>]
Some(name) == [is_none |-> FALSE, name |-> name]

----------------------------------------------------------------------------
(* difflib, as find_best_match uses it: SequenceMatcher without junk       *)
(* (autojunk needs 200 characters), a = the candidate, b = the word        *)

Min(a, b) == IF a <= b THEN a ELSE b

(* the length of the common prefix of a[ai..ahi] and b[bi..bhi] *)
RECURSIVE CommonPrefix(_, _, _, _, _, _)
CommonPrefix(a, b, ai, ahi, bi, bhi) ==
    IF ai > ahi \/ bi > bhi \/ a[ai] # b[bi] THEN 0
    ELSE 1 + CommonPrefix(a, b, ai + 1, ahi, bi + 1, bhi)

(* find_longest_match: the longest block a[x..x+k-1] = b[y..y+k-1] within  *)
(* a[alo..ahi], b[blo..bhi]; of the longest, the one starting earliest in  *)
(* a, and of those the one starting earliest in b                          *)
find_longest_match(a, b, alo, ahi, blo, bhi) ==
    LET blocks == {[x |-> x, y |-> y, k |-> CommonPrefix(a, b, x, ahi, y, bhi)] :
                       x \in alo..ahi, y \in blo..bhi}
        Better(m, n) == \/ m.k > n.k
                        \/ m.k = n.k /\ m.x < n.x
                        \/ m.k = n.k /\ m.x = n.x /\ m.y <= n.y
    IN  IF blocks = {} THEN [x |-> alo, y |-> blo, k |-> 0]
        ELSE CHOOSE m \in blocks : \A n \in blocks : Better(m, n)

(* get_matching_blocks: the number of matched characters, from the longest *)
(* block and, recursively, the pieces to its left and to its right         *)
RECURSIVE matched(_, _, _, _, _, _)
matched(a, b, alo, ahi, blo, bhi) ==
    LET m == find_longest_match(a, b, alo, ahi, blo, bhi)
    IN  IF m.k = 0 THEN 0
        ELSE m.k + matched(a, b, alo, m.x - 1, blo, m.y - 1)
                 + matched(a, b, m.x + m.k, ahi, m.y + m.k, bhi)

(* _calculate_ratio: 2.0 * matches / length, 1.0 when length is 0; a       *)
(* ratio is kept as a fraction                                             *)
calculate_ratio(matches, length) ==
    IF length > 0 THEN [num |-> 2 * matches, den |-> length] ELSE [num |-> 1, den |-> 1]

ratio(a, b) == calculate_ratio(matched(a, b, 1, Len(a), 1, Len(b)), Len(a) + Len(b))

real_quick_ratio(a, b) == calculate_ratio(Min(Len(a), Len(b)), Len(a) + Len(b))

Count(s, c) == Cardinality({n \in 1..Len(s) : s[n] = c})

RECURSIVE SumOver(_, _, _)
SumOver(chars, a, b) ==
    IF chars = {} THEN 0
    ELSE LET c == CHOOSE x \in chars : TRUE
         IN  Min(Count(a, c), Count(b, c)) + SumOver(chars \ {c}, a, b)

quick_ratio(a, b) == calculate_ratio(SumOver(Alphabet, a, b), Len(a) + Len(b))

(* r >= cutoff / 10 *)
AtLeast(r, cutoff10) == 10 * r.num >= cutoff10 * r.den

RatioLess(r, q) == r.num * q.den < q.num * r.den

RECURSIVE NameLess(_, _)
NameLess(s, t) ==
    IF t = <<>> THEN FALSE
    ELSE IF s = <<>> THEN TRUE
    ELSE IF Head(s) # Head(t) THEN Head(s) < Head(t)
    ELSE NameLess(Tail(s), Tail(t))

(* (score, x) < (score, y), as Python compares tuples *)
ScoredLess(word, x, y) ==
    \/ RatioLess(ratio(x, word), ratio(y, word))
    \/ ~RatioLess(ratio(y, word), ratio(x, word)) /\ NameLess(x, y)

(* get_close_matches(word, possibilities, n=1, cutoff): the best-scoring   *)
(* candidate whose three ratios reach the cutoff, as a list                *)
get_close_matches(word, possibilities, cutoff10) ==
    LET close == {k \in 1..Len(possibilities) :
                     /\ AtLeast(real_quick_ratio(possibilities[k], word), cutoff10)
                     /\ AtLeast(quick_ratio(possibilities[k], word), cutoff10)
                     /\ AtLeast(ratio(possibilities[k], word), cutoff10)}
    IN  IF close = {} THEN <<>>
        ELSE LET best == CHOOSE k \in close : \A j \in close :
                             ~ScoredLess(word, possibilities[k], possibilities[j])
             IN  <<possibilities[best]>>

(* find_best_match (make_videos.py lines 275-295, make_video.py lines      *)
(* 198-218)                                                                *)

(* a faulty variant: the requested name itself *)
FallbackRequested(tgt, opts) == Some(tgt)

(* lines 293-295: the first name of the listing *)
Fallback(tgt, opts) == Some(opts[1])

find_best_match(tgt, opts) ==
    IF opts = <<>> THEN None
    ELSE LET strict == get_close_matches(tgt, opts, 6)
         IN  IF strict # <<>> THEN Some(strict[1])
             ELSE LET lenient == get_close_matches(tgt, opts, 1)
                  IN  IF lenient # <<>> THEN Some(lenient[1])
                      ELSE Fallback(tgt, opts)

----------------------------------------------------------------------------
(* moviepy, as far as durations go *)

(* AudioFileClip(path): raises when the file cannot be decoded *)
AudioFileClip(file, slide) ==
    [raised |-> ~file.readable, clip |-> Clip("voice", slide, 0, file.duration)]

subclip(clip, t_start, t_end) == [clip EXCEPT !.duration = t_end - t_start]

loop(clip, duration) == [clip EXCEPT !.duration = duration]

set_start(clip, t) == [clip EXCEPT !.start = t]

set_duration(clip, d) == [clip EXCEPT !.duration = d]

----------------------------------------------------------------------------
(* generate_video, first pass: the duration of one slide (lines 748-771) *)

Pass1SlideDuration(slide, file, k) ==
    IF use_voice_lines /\ file.exists
    THEN LET voice == AudioFileClip(file, k)
         IN  IF voice.raised
             THEN [raised |-> FALSE, slide_duration |-> Ticks(slide.duration_seconds)]
             ELSE [raised |-> FALSE,
                   slide_duration |-> voice.clip.duration + voice_line_delay]
    ELSE [raised |-> FALSE, slide_duration |-> Ticks(slide.duration_seconds)]

(* second pass: the narration of one slide (lines 823-846) *)

TrimVoiceClip(voice_clip) ==
    IF voice_clip.duration > TrimThreshold
    THEN subclip(voice_clip, 0, voice_clip.duration - TrimTail)
    ELSE voice_clip

VoiceStartUnset(t) == 0

VoiceStart(t) == t

(* the same without the try/except around AudioFileClip *)
Pass2VoiceNoExcept(slide, file, k, t) ==
    IF use_voice_lines /\ file.exists
    THEN LET voice == AudioFileClip(file, k)
         IN  IF voice.raised
             THEN [raised |-> TRUE, audio |-> <<>>, slide_duration |-> 0]
             ELSE LET voice_clip == set_start(TrimVoiceClip(voice.clip), VoiceStart(t))
                  IN  [raised |-> FALSE, audio |-> <<voice_clip>>,
                       slide_duration |-> voice_clip.duration + voice_line_delay]
    ELSE [raised |-> FALSE, audio |-> <<>>,
          slide_duration |-> Ticks(slide.duration_seconds)]

Pass2Voice(slide, file, k, t) ==
    IF use_voice_lines /\ file.exists
    THEN LET voice == AudioFileClip(file, k)
         IN  IF voice.raised
             THEN [raised |-> FALSE, audio |-> <<>>,
                   slide_duration |-> Ticks(slide.duration_seconds)]
             ELSE LET voice_clip == set_start(TrimVoiceClip(voice.clip), VoiceStart(t))
                  IN  [raised |-> FALSE, audio |-> <<voice_clip>>,
                       slide_duration |-> voice_clip.duration + voice_line_delay]
    ELSE [raised |-> FALSE, audio |-> <<>>,
          slide_duration |-> Ticks(slide.duration_seconds)]

(* the generated image of one slide (lines 848-907): a full-frame          *)
(* background and the image, or nothing when the file is missing or cannot *)
(* be opened                                                               *)
ImageStates == {"missing", "ok", "corrupt"}

ImageLayers(image, k, slide_duration, t) ==
    IF image = "ok"
    THEN << set_start(Clip("bg", k, 0, slide_duration), t),
            set_start(set_duration(Clip("image", k, 0, 0), slide_duration), t) >>
    ELSE <<>>

(* create_text_clip (lines 347-561): the main text clip and one clip per   *)
(* emoji layer that could be rendered                                      *)
MaxEmojiLayers == 2

RECURSIVE EmojiClips(_, _, _, _)
EmojiClips(n, k, duration, start_time) ==
    IF n = 0 THEN <<>>
    ELSE <<set_duration(set_start(Clip("emoji", k, 0, 0), start_time), duration)>>
         \o EmojiClips(n - 1, k, duration, start_time)

create_text_clip(k, duration, start_time, emoji_layers) ==
    <<set_duration(set_start(Clip("text", k, 0, 0), start_time), duration)>>
    \o EmojiClips(emoji_layers, k, duration, start_time)

AdvanceTime(t, slide_duration) == t + slide_duration

(* the variables of main, when main is not what is modelled *)
NoBatch ==
    /\ output = <<>>
    /\ music_lib = <<>>
    /\ video_lib = <<>>
    /\ mode = "none"
    /\ force = FALSE
    /\ max_videos = -1
    /\ videos_generated = 0
    /\ unprocessed_scenarios = <<>>
    /\ idx = 1
    /\ cur = 0
    /\ report = "none"
    /\ attempts = <<>>
    /\ rendered_ok = {}

TotalDuration(content) == content + intro_delay + outro_delay

----------------------------------------------------------------------------
(* SpecTimeline: generate_video of make_videos.py from the first pass over *)
(* the slides (line 733) to the composition (line 926)                     *)

InitTimeline ==
    /\ pc = "pass1"
    /\ CONFIG \in Configs
    /\ use_voice_lines \in BOOLEAN
    /\ scenario = NoKeys
    /\ \E n \in 1..MaxSlides :
          /\ slides \in [1..n -> Slides]
          /\ voice_files \in [1..n -> VoiceFiles]
    /\ i = 1
    /\ content_duration = 0
    /\ total_duration = 0
    /\ \E d \in SourceDurations : video_clip = Clip("video", 0, 0, d)
    /\ \E d \in SourceDurations : music_clip = Clip("music", 0, 0, d)
    /\ current_time = 0
    /\ all_clips = <<>>
    /\ audio_clips = <<>>
    /\ final_clip = [duration |-> 0, audio_duration |-> 0]
    /\ error = "none"
    /\ target = <<>>
    /\ options = <<>>
    /\ result = None
    /\ NoBatch
    /\ config_file = ValidConfigFile
    /\ NoFrame
    /\ NoFormat
    /\ NoFonts
    /\ has_video = {}
    /\ NoAssets
    /\ NoWebsocket
    /\ NoLoadAll

(* lines 748-771: one iteration of the first loop *)
Pass1Slide ==
    /\ pc = "pass1"
    /\ i <= Len(slides)
    /\ LET r == Pass1SlideDuration(slides[i], voice_files[i], i)
       IN  IF r.raised
           THEN /\ pc' = "raised"
                /\ error' = "AudioFileClip"
                /\ UNCHANGED <<i, content_duration>>
           ELSE /\ content_duration' = content_duration + r.slide_duration
                /\ i' = i + 1
                /\ UNCHANGED <<pc, error>>
    /\ UNCHANGED <<CONFIG, use_voice_lines, scenario, slides, voice_files, total_duration,
                   video_clip, music_clip, current_time, all_clips, audio_clips,
                   final_clip, matchVars, batchVars>>

(* lines 773-778 *)
Pass1Total ==
    /\ pc = "pass1"
    /\ i > Len(slides)
    /\ total_duration' = TotalDuration(content_duration)
    /\ pc' = "fit_video"
    /\ UNCHANGED <<CONFIG, use_voice_lines, scenario, slides, voice_files, i, content_duration,
                   video_clip, music_clip, current_time, all_clips, audio_clips,
                   final_clip, error, matchVars, batchVars>>

(* lines 780-785: a random segment of a longer video; the start of the     *)
(* segment does not matter to its length                                   *)
FitVideoSubclip ==
    /\ pc = "fit_video"
    /\ video_clip.duration > total_duration
    /\ \E start_time \in {0, video_clip.duration - total_duration} :
          video_clip' = subclip(video_clip, start_time, start_time + total_duration)
    /\ pc' = "fit_music"
    /\ UNCHANGED <<CONFIG, use_voice_lines, scenario, slides, voice_files, i, content_duration,
                   total_duration, music_clip, current_time, all_clips, audio_clips,
                   final_clip, error, matchVars, batchVars>>

(* lines 786-789 *)
FitVideoLoop ==
    /\ pc = "fit_video"
    /\ ~(video_clip.duration > total_duration)
    /\ video_clip' = loop(video_clip, total_duration)
    /\ pc' = "fit_music"
    /\ UNCHANGED <<CONFIG, use_voice_lines, scenario, slides, voice_files, i, content_duration,
                   total_duration, music_clip, current_time, all_clips, audio_clips,
                   final_clip, error, matchVars, batchVars>>

(* lines 791-796 *)
FitMusicSubclip ==
    /\ pc = "fit_music"
    /\ music_clip.duration > total_duration
    /\ \E start_time \in {0, music_clip.duration - total_duration} :
          music_clip' = subclip(music_clip, start_time, start_time + total_duration)
    /\ pc' = "start_pass2"
    /\ UNCHANGED <<CONFIG, use_voice_lines, scenario, slides, voice_files, i, content_duration,
                   total_duration, video_clip, current_time, all_clips, audio_clips,
                   final_clip, error, matchVars, batchVars>>

(* lines 797-800 *)
FitMusicLoop ==
    /\ pc = "fit_music"
    /\ ~(music_clip.duration > total_duration)
    /\ music_clip' = loop(music_clip, total_duration)
    /\ pc' = "start_pass2"
    /\ UNCHANGED <<CONFIG, use_voice_lines, scenario, slides, voice_files, i, content_duration,
                   total_duration, video_clip, current_time, all_clips, audio_clips,
                   final_clip, error, matchVars, batchVars>>

(* a faulty variant: the first slide starts after the outro delay *)
StartTimeOutro == outro_delay

(* lines 802-816: the lists of layers and tracks, the running time *)

StartTime == intro_delay

StartPass2 ==
    /\ pc = "start_pass2"
    /\ all_clips' = <<video_clip>>
    /\ audio_clips' = <<music_clip>>
    /\ current_time' = StartTime
    /\ i' = 1
    /\ pc' = "pass2"
    /\ UNCHANGED <<CONFIG, use_voice_lines, scenario, slides, voice_files, content_duration,
                   total_duration, video_clip, music_clip, final_clip, error, matchVars, batchVars>>

(* lines 817-914: one iteration of the second loop *)
Pass2Slide ==
    /\ pc = "pass2"
    /\ i <= Len(slides)
    /\ \E image \in ImageStates, emoji_layers \in 0..MaxEmojiLayers :
         LET r == Pass2Voice(slides[i], voice_files[i], i, current_time)
         IN  IF r.raised
             THEN /\ pc' = "raised"
                  /\ error' = "AudioFileClip"
                  /\ UNCHANGED <<i, current_time, all_clips, audio_clips>>
             ELSE /\ audio_clips' = audio_clips \o r.audio
                  /\ all_clips' = all_clips
                        \o ImageLayers(image, i, r.slide_duration, current_time)
                        \o create_text_clip(i, r.slide_duration, current_time, emoji_layers)
                  /\ current_time' = AdvanceTime(current_time, r.slide_duration)
                  /\ i' = i + 1
                  /\ UNCHANGED <<pc, error>>
    /\ UNCHANGED <<CONFIG, use_voice_lines, scenario, slides, voice_files, content_duration,
                   total_duration, video_clip, music_clip, final_clip, matchVars, batchVars>>

(* lines 916-926: CompositeVideoClip and CompositeAudioClip last as long   *)
(* as their longest-lasting member                                         *)
Compose ==
    /\ pc = "pass2"
    /\ i > Len(slides)
    /\ final_clip' =
          [duration |-> MaxEnd(all_clips),
           audio_duration |-> IF Len(audio_clips) > 1
                              THEN MaxEnd(audio_clips)
                              ELSE music_clip.start + music_clip.duration]
    /\ pc' = "composed"
    /\ UNCHANGED <<CONFIG, use_voice_lines, scenario, slides, voice_files, i, content_duration,
                   total_duration, video_clip, music_clip, current_time, all_clips,
                   audio_clips, error, matchVars, batchVars>>

NextTimeline ==
    \/ Pass1Slide
    \/ Pass1Total
    \/ FitVideoSubclip
    \/ FitVideoLoop
    \/ FitMusicSubclip
    \/ FitMusicLoop
    \/ StartPass2
    \/ Pass2Slide
    \/ Compose

SpecTimeline == InitTimeline /\ [][NextTimeline]_vars

----------------------------------------------------------------------------
(* The timeline of a render: the text overlays, one per slide, and the     *)
(* narration clips                                                         *)

IsText(c) == c.kind = "text"
IsVoice(c) == c.kind = "voice"

TextClips == SelectSeq(all_clips, IsText)
VoiceClips == SelectSeq(audio_clips, IsVoice)

RECURSIVE SumDurations(_)
SumDurations(clips) ==
    IF clips = <<>> THEN 0 ELSE Head(clips).duration + SumDurations(Tail(clips))

Narrated(k) == use_voice_lines /\ voice_files[k].exists /\ voice_files[k].readable

(* C1: the text overlays are one per slide, in slide order; the first      *)
(* starts at intro_delay and each next one starts where the one before it  *)
(* ends; every other layer of a slide has its text overlay's start and     *)
(* duration.                                                               *)
C1_TimelineContiguous ==
    LET tl == TextClips
    IN  /\ pc \in {"pass2", "composed"} => Len(tl) = i - 1
        /\ \A k \in 1..Len(tl) : tl[k].slide = k
        /\ Len(tl) >= 1 => tl[1].start = intro_delay
        /\ \A k \in 1..(Len(tl) - 1) : tl[k + 1].start = tl[k].start + tl[k].duration
        /\ \A n \in 1..Len(all_clips) :
              all_clips[n].slide > 0 =>
                /\ all_clips[n].start = tl[all_clips[n].slide].start
                /\ all_clips[n].duration = tl[all_clips[n].slide].duration

C1_Witness ==
    /\ pc = "composed"
    /\ Len(TextClips) = 2
    /\ Narrated(1)
    /\ ~voice_files[2].exists
    /\ TextClips[2].start > intro_delay

(* C2: once the composition is built, total_duration is intro_delay +      *)
(* outro_delay + the sum of the durations the timeline gave to the slides. *)
C2_TotalIsSumOfTimeline ==
    pc = "composed" =>
        total_duration = intro_delay + outro_delay + SumDurations(TextClips)

(* C3: a slide with a readable narration file of duration D has the        *)
(* duration D + voice_line_delay in the timeline.                          *)
C3_NarrationPrecedence ==
    \A k \in 1..Len(TextClips) :
        Narrated(k) =>
            TextClips[k].duration = voice_files[k].duration + voice_line_delay

(* C4: a slide with no narration file, or with one that cannot be read,    *)
(* has its authored duration_seconds in the timeline, and no exception     *)
(* leaves generate_video because of it.                                    *)
C4_FallbackDuration ==
    /\ error = "none"
    /\ target = <<>>
    /\ options = <<>>
    /\ result = None
    /\ NoBatch
    /\ pc # "raised"
    /\ \A k \in 1..Len(TextClips) :
          (~voice_files[k].exists \/ ~voice_files[k].readable) =>
              TextClips[k].duration = Ticks(slides[k].duration_seconds)

C4_Witness ==
    /\ pc = "composed"
    /\ use_voice_lines
    /\ \E k \in 1..Len(slides) : voice_files[k].exists /\ ~voice_files[k].readable
    /\ \E k \in 1..Len(slides) : ~voice_files[k].exists

(* C5: every narration clip starts where the text overlay of its slide     *)
(* starts; a narrated slide has one narration clip and a slide without a   *)
(* usable narration has none.                                              *)
C5_NarrationAtSlideStart ==
    /\ \A n \in 1..Len(VoiceClips) :
          /\ VoiceClips[n].slide \in 1..Len(TextClips)
          /\ VoiceClips[n].start = TextClips[VoiceClips[n].slide].start
    /\ \A k \in 1..Len(TextClips) :
          Cardinality({n \in 1..Len(VoiceClips) : VoiceClips[n].slide = k})
              = IF Narrated(k) THEN 1 ELSE 0

C5_Witness ==
    /\ pc = "composed"
    /\ Len(slides) = 2
    /\ ~Narrated(1)
    /\ Narrated(2)
    /\ Len(VoiceClips) = 1
    /\ VoiceClips[1].start > 0

----------------------------------------------------------------------------
(* SpecLegacy: generate_video of make_video.py (lines 375-427), which has  *)
(* no narration: video_duration (here total_duration) is the scenario's    *)
(* 'duration' when it has one, else the sum of the slides' durations;      *)
(* audio_clip is music_clip here.                                          *)

ScenarioDurations == {Ticks(1), Ticks(MaxSeconds * MaxSlides)}

ScenarioKeys == {NoKeys} \cup {[k \in {"duration"} |-> d] : d \in ScenarioDurations}

RECURSIVE SumSeconds(_)
SumSeconds(ss) ==
    IF ss = <<>> THEN 0 ELSE Ticks(Head(ss).duration_seconds) + SumSeconds(Tail(ss))

InitLegacy ==
    /\ pc = "duration"
    /\ CONFIG = NoKeys
    /\ use_voice_lines = FALSE
    /\ scenario \in ScenarioKeys
    /\ \E n \in 1..MaxSlides :
          /\ slides \in [1..n -> Slides]
          /\ voice_files = [k \in 1..n |-> NoFile]
    /\ i = 1
    /\ content_duration = 0
    /\ total_duration = 0
    /\ \E d \in SourceDurations : video_clip = Clip("video", 0, 0, d)
    /\ \E d \in SourceDurations : music_clip = Clip("music", 0, 0, d)
    /\ current_time = 0
    /\ all_clips = <<>>
    /\ audio_clips = <<>>
    /\ final_clip = [duration |-> 0, audio_duration |-> 0]
    /\ error = "none"
    /\ target = <<>>
    /\ options = <<>>
    /\ result = None
    /\ NoBatch
    /\ config_file = ValidConfigFile
    /\ NoFrame
    /\ NoFormat
    /\ NoFonts
    /\ has_video = {}
    /\ NoAssets
    /\ NoWebsocket
    /\ NoLoadAll

(* lines 375-380 *)
LegacyVideoDuration ==
    IF "duration" \in DOMAIN scenario THEN scenario["duration"] ELSE SumSeconds(slides)

LegacyDuration ==
    /\ pc = "duration"
    /\ total_duration' = LegacyVideoDuration
    /\ pc' = "legacy_fit_video"
    /\ UNCHANGED <<CONFIG, use_voice_lines, scenario, slides, voice_files, i,
                   content_duration, video_clip, music_clip, current_time, all_clips,
                   audio_clips, final_clip, error, matchVars, batchVars>>

(* lines 382-390 *)
LegacyFitVideoSubclip ==
    /\ pc = "legacy_fit_video"
    /\ video_clip.duration > total_duration
    /\ \E start_time \in {0, video_clip.duration - total_duration} :
          video_clip' = subclip(video_clip, start_time, start_time + total_duration)
    /\ pc' = "legacy_fit_audio"
    /\ UNCHANGED <<CONFIG, use_voice_lines, scenario, slides, voice_files, i,
                   content_duration, total_duration, music_clip, current_time,
                   all_clips, audio_clips, final_clip, error, matchVars, batchVars>>

LegacyFitVideoLoop ==
    /\ pc = "legacy_fit_video"
    /\ ~(video_clip.duration > total_duration)
    /\ video_clip' = loop(video_clip, total_duration)
    /\ pc' = "legacy_fit_audio"
    /\ UNCHANGED <<CONFIG, use_voice_lines, scenario, slides, voice_files, i,
                   content_duration, total_duration, music_clip, current_time,
                   all_clips, audio_clips, final_clip, error, matchVars, batchVars>>

(* lines 392-400 *)
LegacyFitAudioSubclip ==
    /\ pc = "legacy_fit_audio"
    /\ music_clip.duration > total_duration
    /\ \E start_time \in {0, music_clip.duration - total_duration} :
          music_clip' = subclip(music_clip, start_time, start_time + total_duration)
    /\ pc' = "legacy_set_audio"
    /\ UNCHANGED <<CONFIG, use_voice_lines, scenario, slides, voice_files, i,
                   content_duration, total_duration, video_clip, current_time,
                   all_clips, audio_clips, final_clip, error, matchVars, batchVars>>

LegacyFitAudioLoop ==
    /\ pc = "legacy_fit_audio"
    /\ ~(music_clip.duration > total_duration)
    /\ music_clip' = loop(music_clip, total_duration)
    /\ pc' = "legacy_set_audio"
    /\ UNCHANGED <<CONFIG, use_voice_lines, scenario, slides, voice_files, i,
                   content_duration, total_duration, video_clip, current_time,
                   all_clips, audio_clips, final_clip, error, matchVars, batchVars>>

(* lines 402-413: the music is the audio of the background clip *)
LegacySetAudio ==
    /\ pc = "legacy_set_audio"
    /\ audio_clips' = <<music_clip>>
    /\ all_clips' = <<video_clip>>
    /\ current_time' = 0
    /\ pc' = "legacy_slides"
    /\ UNCHANGED <<CONFIG, use_voice_lines, scenario, slides, voice_files, i,
                   content_duration, total_duration, video_clip, music_clip,
                   final_clip, error, matchVars, batchVars>>

(* lines 414-424; create_text_clip of make_video.py (lines 271-332)        *)
(* returns the main text clip and at most one emoji clip                   *)
LegacySlide ==
    /\ pc = "legacy_slides"
    /\ i <= Len(slides)
    /\ \E emoji_layers \in 0..1 :
         LET slide_duration == Ticks(slides[i].duration_seconds)
         IN  /\ all_clips' = all_clips
                    \o create_text_clip(i, slide_duration, current_time, emoji_layers)
             /\ current_time' = AdvanceTime(current_time, slide_duration)
    /\ i' = i + 1
    /\ UNCHANGED <<pc, CONFIG, use_voice_lines, scenario, slides, voice_files,
                   content_duration, total_duration, video_clip, music_clip,
                   audio_clips, final_clip, error, matchVars, batchVars>>

(* line 427: the composition lasts as long as its longest-lasting layer;   *)
(* its audio is that of the layers that have one                           *)
LegacyCompose ==
    /\ pc = "legacy_slides"
    /\ i > Len(slides)
    /\ final_clip' = [duration |-> MaxEnd(all_clips),
                      audio_duration |-> MaxEnd(audio_clips)]
    /\ pc' = "composed"
    /\ UNCHANGED <<CONFIG, use_voice_lines, scenario, slides, voice_files, i,
                   content_duration, total_duration, video_clip, music_clip,
                   current_time, all_clips, audio_clips, error, matchVars, batchVars>>

NextLegacy ==
    \/ LegacyDuration
    \/ LegacyFitVideoSubclip
    \/ LegacyFitVideoLoop
    \/ LegacyFitAudioSubclip
    \/ LegacyFitAudioLoop
    \/ LegacySetAudio
    \/ LegacySlide
    \/ LegacyCompose

SpecLegacy == InitLegacy /\ [][NextLegacy]_vars

(* C6: the composition and its audio both last total_duration, and no      *)
(* layer and no track ends after total_duration.                           *)
C6_DurationParity ==
    pc = "composed" =>
        /\ final_clip.duration = total_duration
        /\ final_clip.audio_duration = total_duration
        /\ \A n \in 1..Len(all_clips) :
              all_clips[n].start + all_clips[n].duration <= total_duration
        /\ \A n \in 1..Len(audio_clips) :
              audio_clips[n].start + audio_clips[n].duration <= total_duration

----------------------------------------------------------------------------
(* SpecMatch: find_best_match on a requested name and a directory listing  *)

MaxNameLen == 2
MaxOptions == 2

FileNames == Names(MaxNameLen) \ {<<>>}

(* os.listdir: distinct, non-empty names, in any order *)
Listings ==
    UNION {{l \in [1..n -> FileNames] : \A x, y \in 1..n : x # y => l[x] # l[y]} :
               n \in 0..MaxOptions}

InitMatch ==
    /\ pc = "call"
    /\ CONFIG = NoKeys
    /\ use_voice_lines = FALSE
    /\ scenario = NoKeys
    /\ slides = <<>>
    /\ voice_files = <<>>
    /\ i = 1
    /\ content_duration = 0
    /\ total_duration = 0
    /\ video_clip = Clip("video", 0, 0, 0)
    /\ music_clip = Clip("music", 0, 0, 0)
    /\ current_time = 0
    /\ all_clips = <<>>
    /\ audio_clips = <<>>
    /\ final_clip = [duration |-> 0, audio_duration |-> 0]
    /\ error = "none"
    /\ target \in Names(MaxNameLen)
    /\ options \in Listings
    /\ result = None
    /\ NoBatch
    /\ config_file = ValidConfigFile
    /\ NoFrame
    /\ NoFormat
    /\ NoFonts
    /\ has_video = {}
    /\ NoAssets
    /\ NoWebsocket
    /\ NoLoadAll

(* line 277-278 *)
MatchNoOptions ==
    /\ pc = "call"
    /\ options = <<>>
    /\ result' = find_best_match(target, options)
    /\ pc' = "returned_none"
    /\ UNCHANGED <<CONFIG, use_voice_lines, scenario, slides, voice_files, i,
                   content_duration, total_duration, video_clip, music_clip,
                   current_time, all_clips, audio_clips, final_clip, error,
                   target, options, batchVars>>

(* lines 280-284 *)
MatchStrict ==
    /\ pc = "call"
    /\ options # <<>>
    /\ get_close_matches(target, options, 6) # <<>>
    /\ result' = find_best_match(target, options)
    /\ pc' = "returned_strict"
    /\ UNCHANGED <<CONFIG, use_voice_lines, scenario, slides, voice_files, i,
                   content_duration, total_duration, video_clip, music_clip,
                   current_time, all_clips, audio_clips, final_clip, error,
                   target, options, batchVars>>

(* lines 286-291 *)
MatchLenient ==
    /\ pc = "call"
    /\ options # <<>>
    /\ get_close_matches(target, options, 6) = <<>>
    /\ get_close_matches(target, options, 1) # <<>>
    /\ result' = find_best_match(target, options)
    /\ pc' = "returned_lenient"
    /\ UNCHANGED <<CONFIG, use_voice_lines, scenario, slides, voice_files, i,
                   content_duration, total_duration, video_clip, music_clip,
                   current_time, all_clips, audio_clips, final_clip, error,
                   target, options, batchVars>>

(* lines 293-295 *)
MatchFallback ==
    /\ pc = "call"
    /\ options # <<>>
    /\ get_close_matches(target, options, 6) = <<>>
    /\ get_close_matches(target, options, 1) = <<>>
    /\ result' = find_best_match(target, options)
    /\ pc' = "returned_fallback"
    /\ UNCHANGED <<CONFIG, use_voice_lines, scenario, slides, voice_files, i,
                   content_duration, total_duration, video_clip, music_clip,
                   current_time, all_clips, audio_clips, final_clip, error,
                   target, options, batchVars>>

NextMatch ==
    \/ MatchNoOptions
    \/ MatchStrict
    \/ MatchLenient
    \/ MatchFallback

SpecMatch == InitMatch /\ [][NextMatch]_vars

Returned == pc \in {"returned_none", "returned_strict", "returned_lenient",
                    "returned_fallback"}

(* C7: called with a non-empty list of names, find_best_match returns one  *)
(* of the names of the list, never None, whatever the requested name is.   *)
C7_ReturnsAnOption ==
    (Returned /\ options # <<>>) =>
        /\ ~result.is_none
        /\ \E k \in 1..Len(options) : options[k] = result.name

C7_Witness ==
    /\ pc = "returned_fallback"
    /\ target = <<>>
    /\ Len(options) = 2
    /\ result = Some(options[1])

----------------------------------------------------------------------------
(* SpecBatch: main, process_scenario and find_unprocessed_scenarios of     *)
(* make_videos.py, run after run. generate_video is reduced to what it     *)
(* does to the output file: it resolves and loads the media, builds the    *)
(* composition and writes the file, and any of these may raise.            *)

MaxScenarios == 2

Scenarios == 1..MaxScenarios

Libraries == {<<>>, <<(<<1>>)>>}

RequestedMusic == <<1>>
RequestedVideo == <<2>>

(* os.path.exists(output_path) *)
Exists(file) == file # "absent"

RECURSIVE Ascending(_)
Ascending(S) ==
    IF S = {} THEN <<>>
    ELSE LET m == CHOOSE x \in S : \A y \in S : x <= y
         IN  <<m>> \o Ascending(S \ {m})

Range(seq) == {seq[k] : k \in 1..Len(seq)}

(* a faulty variant: every scenario file, processed or not *)
find_all_scenarios == Ascending(Scenarios)

(* lines 236-263: the scenarios without an output file, in the order of    *)
(* the directory listing                                                   *)
find_unprocessed_scenarios == Ascending({s \in Scenarios : ~Exists(output[s])})

(* a faulty variant: a handler for I/O errors only *)
CatchesIOError(e) == e = "IOError"

(* line 986: except Exception; KeyboardInterrupt is no Exception *)
Catches(e) == e # "KeyboardInterrupt"

(* a faulty variant: only the video file name is looked at *)
VideoMissing(music_file, video_file) == video_file.is_none

(* lines 712-713: os.path.join(dir, None) raises TypeError *)
MediaMissing(music_file, video_file) == music_file.is_none \/ video_file.is_none

(* the force that process_scenario gets: args.force for one scenario       *)
(* (line 1083), the default False in a batch (lines 1105, 1133)            *)
ForceArg == mode = "single" /\ force

Attempted(a) == IF a < 2 THEN a + 1 ELSE a

InBatchRun == pc \in {"main_loop", "random_loop", "process", "generate", "writing"}

(* the batch, started with the given has_video marks in the scenario files *)
InitBatchMarked(marks) ==
    /\ pc = "idle"
    /\ CONFIG = NoKeys
    /\ use_voice_lines = FALSE
    /\ scenario = NoKeys
    /\ slides = <<>>
    /\ voice_files = <<>>
    /\ i = 1
    /\ content_duration = 0
    /\ total_duration = 0
    /\ video_clip = Clip("video", 0, 0, 0)
    /\ music_clip = Clip("music", 0, 0, 0)
    /\ current_time = 0
    /\ all_clips = <<>>
    /\ audio_clips = <<>>
    /\ final_clip = [duration |-> 0, audio_duration |-> 0]
    /\ error = "none"
    /\ target = <<>>
    /\ options = <<>>
    /\ result = None
    /\ output = [s \in Scenarios |-> "absent"]
    /\ music_lib \in Libraries
    /\ video_lib \in Libraries
    /\ mode = "none"
    /\ force = FALSE
    /\ max_videos = -1
    /\ videos_generated = 0
    /\ unprocessed_scenarios = <<>>
    /\ idx = 1
    /\ cur = 0
    /\ report = "none"
    /\ attempts = [s \in Scenarios |-> 0]
    /\ rendered_ok = {}
    /\ config_file = ValidConfigFile
    /\ NoFrame
    /\ NoFormat
    /\ NoFonts
    /\ has_video \in marks
    /\ NoAssets
    /\ NoWebsocket
    /\ NoLoadAll

InitBatch == InitBatchMarked({{}})

(* what a run of main leaves alone *)
UnchangedOutside == UNCHANGED <<CONFIG, use_voice_lines, scenario, slides,
                                voice_files, i, content_duration, total_duration,
                                video_clip, music_clip, current_time, all_clips,
                                audio_clips, final_clip, matchVars, libVars>>

(* a faulty variant: the end of a batch always reports success *)
BatchReportSuccess == "success"

(* the end of a batch: lines 1111-1114, 1139-1142 *)
BatchReport == IF videos_generated > 0 THEN "success" ELSE "no_videos"

(* lines 1093-1097: -n -1 and nothing to do *)
StartAllNothing ==
    /\ pc = "idle"
    /\ find_unprocessed_scenarios = <<>>
    /\ mode' = "all"
    /\ force' \in BOOLEAN
    /\ max_videos' = -1
    /\ videos_generated' = 0
    /\ unprocessed_scenarios' = find_unprocessed_scenarios
    /\ idx' = 1
    /\ attempts' = [s \in Scenarios |-> 0]
    /\ report' = "no_unprocessed"
    /\ error' = "none"
    /\ UNCHANGED <<pc, output, cur, rendered_ok>>
    /\ UnchangedOutside

(* lines 1093-1099: -n -1 *)
StartAll ==
    /\ pc = "idle"
    /\ find_unprocessed_scenarios # <<>>
    /\ mode' = "all"
    /\ force' \in BOOLEAN
    /\ max_videos' = -1
    /\ videos_generated' = 0
    /\ unprocessed_scenarios' = find_unprocessed_scenarios
    /\ idx' = 1
    /\ attempts' = [s \in Scenarios |-> 0]
    /\ report' = "none"
    /\ error' = "none"
    /\ pc' = "main_loop"
    /\ UNCHANGED <<output, cur, rendered_ok>>
    /\ UnchangedOutside

(* lines 1101-1105: the next scenario of the list *)
LoopNext ==
    /\ pc = "main_loop"
    /\ idx <= Len(unprocessed_scenarios)
    /\ cur' = unprocessed_scenarios[idx]
    /\ attempts' = [attempts EXCEPT ![cur'] = Attempted(@)]
    /\ pc' = "process"
    /\ UNCHANGED <<output, argVars, videos_generated, unprocessed_scenarios, idx,
                   report, rendered_ok, error>>
    /\ UnchangedOutside

(* lines 1111-1114 and 1145: the list is exhausted *)
LoopEnd ==
    /\ pc = "main_loop"
    /\ idx > Len(unprocessed_scenarios)
    /\ report' = BatchReport
    /\ pc' = "idle"
    /\ UNCHANGED <<output, argVars, videos_generated, unprocessed_scenarios, idx,
                   cur, attempts, rendered_ok, error>>
    /\ UnchangedOutside

(* lines 1116-1117: -n N *)
StartRandom ==
    /\ pc = "idle"
    /\ mode' = "random"
    /\ force' \in BOOLEAN
    /\ max_videos' \in 0..MaxScenarios
    /\ videos_generated' = 0
    /\ unprocessed_scenarios' = <<>>
    /\ idx' = 1
    /\ attempts' = [s \in Scenarios |-> 0]
    /\ report' = "none"
    /\ error' = "none"
    /\ pc' = "random_loop"
    /\ UNCHANGED <<output, cur, rendered_ok>>
    /\ UnchangedOutside

(* lines 1119-1120, 1139-1145: the requested number is reached *)
RandomEnough ==
    /\ pc = "random_loop"
    /\ max_videos > 0 /\ videos_generated >= max_videos
    /\ report' = BatchReport
    /\ pc' = "idle"
    /\ UNCHANGED <<output, argVars, videos_generated, unprocessed_scenarios, idx,
                   cur, attempts, rendered_ok, error>>
    /\ UnchangedOutside

(* lines 1123-1128, 1139-1145: find_random_scenario returns None *)
RandomNoneLeft ==
    /\ pc = "random_loop"
    /\ ~(max_videos > 0 /\ videos_generated >= max_videos)
    /\ find_unprocessed_scenarios = <<>>
    /\ report' = BatchReport
    /\ pc' = "idle"
    /\ UNCHANGED <<output, argVars, videos_generated, unprocessed_scenarios, idx,
                   cur, attempts, rendered_ok, error>>
    /\ UnchangedOutside

(* lines 1123, 1130-1133 and 265-273: random.choice of the unprocessed *)
RandomPick ==
    /\ pc = "random_loop"
    /\ ~(max_videos > 0 /\ videos_generated >= max_videos)
    /\ find_unprocessed_scenarios # <<>>
    /\ cur' \in Range(find_unprocessed_scenarios)
    /\ attempts' = [attempts EXCEPT ![cur'] = Attempted(@)]
    /\ pc' = "process"
    /\ UNCHANGED <<output, argVars, videos_generated, unprocessed_scenarios, idx,
                   report, rendered_ok, error>>
    /\ UnchangedOutside

(* lines 1075-1083: -s <scenario>, with or without -f *)
StartSingle ==
    /\ pc = "idle"
    /\ mode' = "single"
    /\ force' \in BOOLEAN
    /\ max_videos' = -1
    /\ videos_generated' = 0
    /\ unprocessed_scenarios' = <<>>
    /\ idx' = 1
    /\ cur' \in Scenarios
    /\ attempts' = [s \in Scenarios |-> IF s = cur' THEN 1 ELSE 0]
    /\ report' = "none"
    /\ error' = "none"
    /\ pc' = "process"
    /\ UNCHANGED <<output, rendered_ok>>
    /\ UnchangedOutside

(* process_scenario has returned success to main: lines 1085-1086,         *)
(* 1107-1109, 1135-1137                                                    *)
ReturnToMain(success) ==
    /\ videos_generated' =
          IF success /\ mode # "single" THEN videos_generated + 1 ELSE videos_generated
    /\ idx' = IF mode = "all" THEN idx + 1 ELSE idx
    /\ pc' = IF mode = "all" THEN "main_loop"
             ELSE IF mode = "random" THEN "random_loop" ELSE "idle"
    /\ report' = IF mode = "single"
                 THEN (IF success THEN "success" ELSE "no_videos")
                 ELSE report

(* lines 961-975: the output exists and force is not given *)
ProcessSkip ==
    /\ pc = "process"
    /\ ~ForceArg /\ Exists(output[cur])
    /\ ReturnToMain(FALSE)
    /\ UNCHANGED <<output, argVars, unprocessed_scenarios, cur, attempts,
                   rendered_ok, error>>
    /\ UnchangedOutside

(* lines 961-978: generate_video is called *)
ProcessGenerate ==
    /\ pc = "process"
    /\ ~(~ForceArg /\ Exists(output[cur]))
    /\ pc' = "generate"
    /\ UNCHANGED <<output, argVars, videos_generated, unprocessed_scenarios, idx,
                   cur, report, attempts, rendered_ok, error>>
    /\ UnchangedOutside

(* lines 693-713: a library is empty, find_best_match returns None and     *)
(* the path of the clip cannot be built                                    *)
GenerateNoMedia ==
    /\ pc = "generate"
    /\ MediaMissing(find_best_match(RequestedMusic, music_lib),
                    find_best_match(RequestedVideo, video_lib))
    /\ error' = "TypeError"
    /\ pc' = "raised"
    /\ UNCHANGED <<output, argVars, videos_generated, unprocessed_scenarios, idx,
                   cur, report, attempts, rendered_ok>>
    /\ UnchangedOutside

(* lines 711-926: a clip cannot be loaded or the composition fails *)
GenerateFails ==
    /\ pc = "generate"
    /\ ~MediaMissing(find_best_match(RequestedMusic, music_lib),
                     find_best_match(RequestedVideo, video_lib))
    /\ error' = "IOError"
    /\ pc' = "raised"
    /\ UNCHANGED <<output, argVars, videos_generated, unprocessed_scenarios, idx,
                   cur, report, attempts, rendered_ok>>
    /\ UnchangedOutside

(* lines 711-934: the composition is built and write_videofile starts to   *)
(* write the output file                                                   *)
GenerateStartsWrite ==
    /\ pc = "generate"
    /\ ~MediaMissing(find_best_match(RequestedMusic, music_lib),
                     find_best_match(RequestedVideo, video_lib))
    /\ output' = [output EXCEPT ![cur] = "partial"]
    /\ pc' = "writing"
    /\ UNCHANGED <<argVars, videos_generated, unprocessed_scenarios, idx, cur,
                   report, attempts, rendered_ok, error>>
    /\ UnchangedOutside

(* lines 934-949 and 980-982: the file is written, process_scenario        *)
(* returns True                                                            *)
WriteDone ==
    /\ pc = "writing"
    /\ output' = [output EXCEPT ![cur] = "complete"]
    /\ rendered_ok' = rendered_ok \cup {cur}
    /\ ReturnToMain(TRUE)
    /\ UNCHANGED <<argVars, unprocessed_scenarios, cur, attempts, error>>
    /\ UnchangedOutside

(* line 934: write_videofile raises (encoder error, disk full) *)
WriteFails ==
    /\ pc = "writing"
    /\ error' = "IOError"
    /\ pc' = "raised"
    /\ UNCHANGED <<output, argVars, videos_generated, unprocessed_scenarios, idx,
                   cur, report, attempts, rendered_ok>>
    /\ UnchangedOutside

(* Ctrl+C: KeyboardInterrupt is raised wherever the run is *)
Interrupt ==
    /\ InBatchRun
    /\ error' = "KeyboardInterrupt"
    /\ pc' = "raised"
    /\ UNCHANGED <<output, argVars, videos_generated, unprocessed_scenarios, idx,
                   cur, report, attempts, rendered_ok>>
    /\ UnchangedOutside

(* lines 986-988: the handler of process_scenario *)
ProcessExcept ==
    /\ pc = "raised"
    /\ Catches(error)
    /\ cur # 0
    /\ ReturnToMain(FALSE)
    /\ UNCHANGED <<output, argVars, unprocessed_scenarios, cur, attempts,
                   rendered_ok, error>>
    /\ UnchangedOutside

(* lines 1147-1153: what process_scenario does not catch ends the run *)
TopLevel ==
    /\ pc = "raised"
    /\ ~Catches(error)
    /\ report' = IF error = "KeyboardInterrupt" THEN "interrupted" ELSE "crashed"
    /\ pc' = "idle"
    /\ UNCHANGED <<output, argVars, videos_generated, unprocessed_scenarios, idx,
                   cur, attempts, rendered_ok, error>>
    /\ UnchangedOutside

NextBatch ==
    \/ StartAllNothing
    \/ StartAll
    \/ LoopNext
    \/ LoopEnd
    \/ StartRandom
    \/ RandomEnough
    \/ RandomNoneLeft
    \/ RandomPick
    \/ StartSingle
    \/ ProcessSkip
    \/ ProcessGenerate
    \/ GenerateNoMedia
    \/ GenerateFails
    \/ GenerateStartsWrite
    \/ WriteDone
    \/ WriteFails
    \/ Interrupt
    \/ ProcessExcept
    \/ TopLevel

SpecBatch == InitBatch /\ [][NextBatch]_vars

EndedNormally == pc = "idle" /\ report \in {"success", "no_videos", "crashed"}

LibraryEmpty == music_lib = <<>> \/ video_lib = <<>>

(* C8: with an empty music or video library find_best_match returns None   *)
(* and the scenario fails without an output file: nothing is written and   *)
(* nothing counts as rendered, the exception is one process_scenario       *)
(* catches, and a batch over all scenarios still attempts every one of     *)
(* them and ends with no video generated.                                  *)
C8_EmptyLibraryFailsScenarioOnly ==
    LibraryEmpty =>
        /\ MediaMissing(find_best_match(RequestedMusic, music_lib),
                        find_best_match(RequestedVideo, video_lib))
        /\ \A s \in Scenarios : output[s] = "absent"
        /\ rendered_ok = {}
        /\ videos_generated = 0
        /\ pc # "writing"
        /\ report \notin {"success", "crashed"}
        /\ (mode = "all" /\ EndedNormally) =>
              /\ report = "no_videos"
              /\ \A s \in Scenarios : attempts[s] = 1

C8_Witness ==
    /\ music_lib = <<>>
    /\ video_lib # <<>>
    /\ mode = "all"
    /\ pc = "idle"
    /\ report = "no_videos"
    /\ error = "TypeError"
    /\ \A s \in Scenarios : attempts[s] = 1

(* C9: in a batch over all unprocessed scenarios one scenario is in        *)
(* progress at a time, in the order of the list; no scenario is attempted  *)
(* twice; and when the run ends other than by an interrupt, every scenario *)
(* of the list has been attempted once, whatever failed before it.         *)
C9_BatchAttemptsEveryScenarioOnce ==
    mode = "all" =>
        /\ \A s \in Scenarios : attempts[s] <= 1
        /\ \A s \in Scenarios : attempts[s] = 1 => s \in Range(unprocessed_scenarios)
        /\ pc \in {"process", "generate", "writing"} =>
              /\ cur = unprocessed_scenarios[idx]
              /\ \A k \in 1..Len(unprocessed_scenarios) :
                    attempts[unprocessed_scenarios[k]] = IF k <= idx THEN 1 ELSE 0
        /\ EndedNormally =>
              \A k \in 1..Len(unprocessed_scenarios) :
                  attempts[unprocessed_scenarios[k]] = 1

C9_Witness ==
    /\ mode = "all"
    /\ pc = "idle"
    /\ report = "success"
    /\ Len(unprocessed_scenarios) = 2
    /\ output[unprocessed_scenarios[1]] = "partial"
    /\ output[unprocessed_scenarios[2]] = "complete"
    /\ \A s \in Scenarios : attempts[s] = 1

(* C10: a scenario whose render has completed has an output file, and a    *)
(* batch run (which never passes force on) neither selects it nor renders  *)
(* it again; process_scenario renders it again only with force.            *)
C10_RenderedIsNotSelectedAgain ==
    /\ \A s \in rendered_ok : Exists(output[s])
    /\ (mode = "all" /\ pc \in {"main_loop", "process", "generate", "writing"}) =>
          \A k \in idx..Len(unprocessed_scenarios) :
              unprocessed_scenarios[k] \notin rendered_ok
    /\ (mode = "random" /\ pc \in {"process", "generate", "writing"}) =>
          cur \notin rendered_ok
    /\ (pc \in {"generate", "writing"} /\ cur \in rendered_ok) =>
          mode = "single" /\ force

C10_Witness ==
    /\ mode = "all"
    /\ pc = "writing"
    /\ rendered_ok = {1}
    /\ unprocessed_scenarios = <<2>>
    /\ cur = 2

(* C11: when the render of a scenario that has not been rendered before   *)
(* fails with an exception process_scenario catches, the scenario is again *)
(* among those find_unprocessed_scenarios returns.                         *)
C11_FailureLeavesUnprocessed ==
    (pc = "raised" /\ Catches(error) /\ cur \notin rendered_ok) =>
        cur \in Range(find_unprocessed_scenarios)

(* C12: whenever main is not running, a scenario counts as processed (its  *)
(* output file exists) exactly when that file was written completely.      *)
C12_ProcessedIffComplete ==
    pc = "idle" =>
        \A s \in Scenarios : Exists(output[s]) <=> output[s] = "complete"

(* C13: a run over all scenarios that was started with -f and has ended    *)
(* without an interrupt has called process_scenario for every scenario,    *)
(* those with an output file included.                                     *)
C13_ForcedBatchRendersAgain ==
    (mode = "all" /\ force /\ pc = "idle"
        /\ report \in {"success", "no_videos", "no_unprocessed"}) =>
        \A s \in Scenarios : attempts[s] = 1

(* C14: no KeyboardInterrupt is raised while write_videofile is writing    *)
(* the output file: the write first completes or fails.                    *)
C14_InterruptWaitsForWrite ==
    [][pc = "writing" => error' # "KeyboardInterrupt"]_vars

(* C15: when a batch run is interrupted, every scenario rendered before    *)
(* still has its output file, and the scenario in progress has either a    *)
(* complete output file or none.                                           *)
C15_InterruptKeepsMarksConsistent ==
    [][(mode \in {"all", "random"} /\ pc \in {"process", "generate", "writing"}
          /\ error' = "KeyboardInterrupt") =>
          /\ \A s \in rendered_ok : Exists(output'[s])
          /\ output'[cur] \in {"complete", "absent"}]_vars

(* the scenarios process_scenario was called for in this run, and whether  *)
(* one of them was rendered: a batch only attempts scenarios without an    *)
(* output file, so a complete file of an attempted scenario is of this run *)
AttemptedSome == \E s \in Scenarios : attempts[s] >= 1

RenderedNone == \A s \in Scenarios : attempts[s] >= 1 => output[s] # "complete"

(* C17: a batch run that called process_scenario at least once, rendered   *)
(* no video and was not interrupted ends with the report "No videos were   *)
(* generated"; it ends with the success report only if it rendered one.    *)
C17_NoVideosIsReported ==
    (mode \in {"all", "random"} /\ pc = "idle" /\ AttemptedSome
        /\ report # "interrupted") =>
        /\ RenderedNone => report = "no_videos"
        /\ report = "success" => ~RenderedNone

C17_Witness ==
    /\ mode = "random"
    /\ pc = "idle"
    /\ report = "no_videos"
    /\ \E s \in Scenarios : attempts[s] >= 2 /\ output[s] = "partial"
    /\ RenderedNone

(* C18: a run started with -n N, N >= 0, generates at most N videos.       *)
C18_AtMostN ==
    mode = "random" => videos_generated <= max_videos

----------------------------------------------------------------------------
(* SpecConfig: main of make_videos.py from its first line. It loads the    *)
(* configuration (config_utils.load_config), reads the ImageMagick binary  *)
(* and the directories from it, and only then looks at the scenarios.      *)

ConfigFiles ==
    {[state |-> "missing", keys |-> {}], [state |-> "unparsable", keys |-> {}]}
    \cup {[state |-> "parsed", keys |-> K] : K \in SUBSET RequiredKeys}

DirectoryKeys == {"videos_dir", "music_dir", "output_videos"}

(* config_utils.py lines 15-45: validate_config raises ValueError *)
Invalid(keys) == "prompts" \notin keys

(* make_videos.py line 1049: CONFIG["video"]["imagemagick_binary"] *)
MissingBinary(keys) == "imagemagick_binary" \notin keys

(* a faulty variant: the directories are looked up when they are used *)
DirectoriesUnchecked(keys) == FALSE

(* make_videos.py lines 67-75: CONFIG["directories"][...] raises KeyError *)
MissingDirectory(keys) == DirectoryKeys \ keys # {}

(* a configuration error: no configuration, or one without a required key *)
ConfigError(file) == file.state # "parsed" \/ file.keys # RequiredKeys

InitConfig ==
    /\ pc = "start"
    /\ CONFIG = NoKeys
    /\ use_voice_lines = FALSE
    /\ scenario = NoKeys
    /\ slides = <<>>
    /\ voice_files = <<>>
    /\ i = 1
    /\ content_duration = 0
    /\ total_duration = 0
    /\ video_clip = Clip("video", 0, 0, 0)
    /\ music_clip = Clip("music", 0, 0, 0)
    /\ current_time = 0
    /\ all_clips = <<>>
    /\ audio_clips = <<>>
    /\ final_clip = [duration |-> 0, audio_duration |-> 0]
    /\ error = "none"
    /\ target = <<>>
    /\ options = <<>>
    /\ result = None
    /\ output = [s \in Scenarios |-> "absent"]
    /\ music_lib \in Libraries
    /\ video_lib \in Libraries
    /\ mode = "none"
    /\ force = FALSE
    /\ max_videos = -1
    /\ videos_generated = 0
    /\ unprocessed_scenarios = <<>>
    /\ idx = 1
    /\ cur = 0
    /\ report = "none"
    /\ attempts = [s \in Scenarios |-> 0]
    /\ rendered_ok = {}
    /\ config_file \in ConfigFiles
    /\ NoFrame
    /\ NoFormat
    /\ NoFonts
    /\ has_video = {}
    /\ NoAssets
    /\ NoWebsocket
    /\ NoLoadAll

(* what the first lines of main leave alone *)
UnchangedByPrelude ==
    /\ UNCHANGED <<output, argVars, videos_generated, unprocessed_scenarios, idx,
                   cur, attempts, rendered_ok>>
    /\ UnchangedOutside

(* config_utils.py lines 177-183: the file is missing or is not YAML;      *)
(* load_config prints the error and calls sys.exit(1)                      *)
LoadConfigExits ==
    /\ pc = "start"
    /\ config_file.state # "parsed"
    /\ error' = "SystemExit"
    /\ report' = "config_error"
    /\ pc' = "exited"
    /\ UnchangedByPrelude

(* config_utils.py lines 171-173: validate_config raises ValueError, which *)
(* neither load_config nor main catches                                    *)
LoadConfigInvalid ==
    /\ pc = "start"
    /\ config_file.state = "parsed"
    /\ Invalid(config_file.keys)
    /\ error' = "ValueError"
    /\ report' = "crashed"
    /\ pc' = "exited"
    /\ UnchangedByPrelude

(* make_videos.py lines 1044-1046 *)
LoadConfig ==
    /\ pc = "start"
    /\ config_file.state = "parsed"
    /\ ~Invalid(config_file.keys)
    /\ pc' = "configured"
    /\ UNCHANGED <<error, report>>
    /\ UnchangedByPrelude

(* make_videos.py line 1049 *)
ChangeSettingsFails ==
    /\ pc = "configured"
    /\ MissingBinary(config_file.keys)
    /\ error' = "KeyError"
    /\ report' = "crashed"
    /\ pc' = "exited"
    /\ UnchangedByPrelude

ChangeSettings ==
    /\ pc = "configured"
    /\ ~MissingBinary(config_file.keys)
    /\ pc' = "settings"
    /\ UNCHANGED <<error, report>>
    /\ UnchangedByPrelude

(* make_videos.py lines 1061 and 58-75 *)
UpdateDirectoriesFails ==
    /\ pc = "settings"
    /\ MissingDirectory(config_file.keys)
    /\ error' = "KeyError"
    /\ report' = "crashed"
    /\ pc' = "exited"
    /\ UnchangedByPrelude

(* make_videos.py lines 1061-1073: the directories are set and main turns  *)
(* to the scenarios                                                        *)
UpdateDirectories ==
    /\ pc = "settings"
    /\ ~MissingDirectory(config_file.keys)
    /\ pc' = "idle"
    /\ UNCHANGED <<error, report>>
    /\ UnchangedByPrelude

NextConfig ==
    \/ LoadConfigExits
    \/ LoadConfigInvalid
    \/ LoadConfig
    \/ ChangeSettingsFails
    \/ ChangeSettings
    \/ UpdateDirectoriesFails
    \/ UpdateDirectories
    \/ NextBatch

SpecConfig == InitConfig /\ [][NextConfig]_vars

(* C16: with a configuration file that is missing, unparsable, invalid or  *)
(* without a key main needs, the run ends before main looks at a scenario: *)
(* process_scenario is never called, no output is written, and the run     *)
(* ends with one error for the whole run.                                  *)
C16_ConfigErrorHaltsBeforeScenarios ==
    ConfigError(config_file) =>
        /\ pc \in {"start", "configured", "settings", "exited"}
        /\ mode = "none"
        /\ \A s \in Scenarios : attempts[s] = 0 /\ output[s] = "absent"
        /\ pc = "exited" <=> error # "none"
        /\ pc = "exited" <=> report \in {"config_error", "crashed"}

C16_Witness ==
    /\ pc = "exited"
    /\ error = "KeyError"
    /\ config_file.state = "parsed"
    /\ RequiredKeys \ config_file.keys = {"music_dir"}

----------------------------------------------------------------------------
(* SpecResize: resize_video (make_videos.py lines 205-234, the same code   *)
(* as make_video.py lines 139-168) and the fitting of a slide's generated  *)
(* image in generate_video (lines 848-907). Sizes are <<width, height>>.   *)
(* The code compares aspect ratios as floats; for the sizes of the model   *)
(* w1 / h1 > w2 / h2 is exactly w1 * h2 > w2 * h1.                         *)

MaxSide == 6

Sizes == (1..MaxSide) \X (1..MaxSide)

(* lines 716-727: the frame in units of 120 pixels, 1080 x 1920 at full    *)
(* quality                                                                 *)
StandardResolution(vert) == IF vert THEN <<9, 16>> ELSE <<16, 9>>

Wider(size, frame) == size[1] * frame[2] > frame[1] * size[2]

(* moviepy: clip.resize(height=h) gives [w * h / clip.h, h], and the       *)
(* resizer takes int() of both                                             *)
resize_height(size, height) == <<(size[1] * height) \div size[2], height>>

(* moviepy: clip.resize(width=w) gives [w, h * w / clip.w] *)
resize_width(size, width) == <<width, (size[2] * width) \div size[1]>>

(* a Python slice bound v of a sequence of length n *)
SliceBound(v, n) == IF v < 0 THEN Max(v + n, 0) ELSE Min(v, n)

(* the length of pic[a:b] along an axis of length n *)
SliceLen(a, b, n) == Max(0, SliceBound(b, n) - SliceBound(a, n))

(* moviepy: clip.crop(x1, y1, width, height) is pic[y1:y1+height,          *)
(* x1:x1+width] of every frame                                             *)
crop_size(size, x1, y1, width, height) ==
    <<SliceLen(x1, x1 + width, size[1]), SliceLen(y1, y1 + height, size[2])>>

(* a faulty variant: the centre itself is taken as the offset *)
CropOffsetUncentred(resized_len, target_len) == resized_len \div 2

(* lines 220-221 and 230-231: x_center - (target_width // 2) *)
CropOffset(resized_len, target_len) == (resized_len \div 2) - (target_len \div 2)

InitResize ==
    /\ pc = "resize_video"
    /\ CONFIG = NoKeys
    /\ use_voice_lines = FALSE
    /\ scenario = NoKeys
    /\ slides = <<>>
    /\ voice_files = <<>>
    /\ i = 1
    /\ content_duration = 0
    /\ total_duration = 0
    /\ video_clip = Clip("video", 0, 0, 0)
    /\ music_clip = Clip("music", 0, 0, 0)
    /\ current_time = 0
    /\ all_clips = <<>>
    /\ audio_clips = <<>>
    /\ final_clip = [duration |-> 0, audio_duration |-> 0]
    /\ error = "none"
    /\ target = <<>>
    /\ options = <<>>
    /\ result = None
    /\ NoBatch
    /\ config_file = ValidConfigFile
    /\ vertical \in BOOLEAN
    /\ target_resolution \in {StandardResolution(vertical)} \cup Sizes
    /\ clip_size \in Sizes
    /\ resized_clip = <<0, 0>>
    /\ crop = <<0, 0>>
    /\ cropped_clip = <<0, 0>>
    /\ image_size = <<0, 0>>
    /\ image_clip = <<0, 0>>
    /\ NoFormat
    /\ NoFonts
    /\ has_video = {}
    /\ NoAssets
    /\ NoWebsocket
    /\ NoLoadAll

UnchangedByResize ==
    UNCHANGED <<CONFIG, use_voice_lines, scenario, slides, voice_files, i,
                content_duration, total_duration, video_clip, music_clip,
                current_time, all_clips, audio_clips, final_clip, error, matchVars,
                output, music_lib, video_lib, argVars, videos_generated,
                unprocessed_scenarios, idx, cur, report, attempts, rendered_ok,
                config_file, vertical, target_resolution, clip_size, formatVars,
                fontVars, has_video, assetVars, wsVars, loadVars>>

(* lines 215-222: the clip is wider than the frame *)
ResizeVideoWide ==
    /\ pc = "resize_video"
    /\ Wider(clip_size, target_resolution)
    /\ LET resized == resize_height(clip_size, target_resolution[2])
           x1 == CropOffset(resized[1], target_resolution[1])
       IN  /\ resized_clip' = resized
           /\ crop' = <<x1, 0>>
           /\ cropped_clip' = crop_size(resized, x1, 0, target_resolution[1],
                                        target_resolution[2])
    /\ pc' = "video_resized"
    /\ UNCHANGED <<image_size, image_clip>>
    /\ UnchangedByResize

(* lines 223-232: the clip is as wide as the frame or narrower *)
ResizeVideoTall ==
    /\ pc = "resize_video"
    /\ ~Wider(clip_size, target_resolution)
    /\ LET resized == resize_width(clip_size, target_resolution[1])
           y1 == CropOffset(resized[2], target_resolution[2])
       IN  /\ resized_clip' = resized
           /\ crop' = <<0, y1>>
           /\ cropped_clip' = crop_size(resized, 0, y1, target_resolution[1],
                                        target_resolution[2])
    /\ pc' = "video_resized"
    /\ UNCHANGED <<image_size, image_clip>>
    /\ UnchangedByResize

(* the frames generate_video fits an image into (lines 716-727) *)
ImageFrame == pc = "video_resized" /\ target_resolution = StandardResolution(vertical)

(* lines 864-874: vertical, the image is wider than the frame *)
ImageCoverHeight ==
    /\ ImageFrame
    /\ vertical
    /\ \E size \in Sizes :
          /\ Wider(size, target_resolution)
          /\ image_size' = size
          /\ image_clip' = resize_height(size, target_resolution[2])
    /\ pc' = "image_placed"
    /\ UNCHANGED <<resized_clip, crop, cropped_clip>>
    /\ UnchangedByResize

(* lines 875-879: vertical, the image is as wide as the frame or narrower *)
ImageCoverWidth ==
    /\ ImageFrame
    /\ vertical
    /\ \E size \in Sizes :
          /\ ~Wider(size, target_resolution)
          /\ image_size' = size
          /\ image_clip' = resize_width(size, target_resolution[1])
    /\ pc' = "image_placed"
    /\ UNCHANGED <<resized_clip, crop, cropped_clip>>
    /\ UnchangedByResize

(* lines 880-883: horizontal, the image is resized to the frame's height *)
ImageHorizontal ==
    /\ ImageFrame
    /\ ~vertical
    /\ \E size \in Sizes :
          /\ image_size' = size
          /\ image_clip' = resize_height(size, target_resolution[2])
    /\ pc' = "image_placed"
    /\ UNCHANGED <<resized_clip, crop, cropped_clip>>
    /\ UnchangedByResize

NextResize ==
    \/ ResizeVideoWide
    \/ ResizeVideoTall
    \/ ImageCoverHeight
    \/ ImageCoverWidth
    \/ ImageHorizontal

SpecResize == InitResize /\ [][NextResize]_vars

Abs(n) == IF n < 0 THEN -n ELSE n

(* C19: the clip resize_video returns has exactly the target size; the     *)
(* crop window lies inside the resized clip, starts at 0 along the         *)
(* dimension that fits, and along the other one leaves margins that differ *)
(* by at most one pixel.                                                   *)
C19_ResizeVideoCovers ==
    pc \in {"video_resized", "image_placed"} =>
        /\ cropped_clip = target_resolution
        /\ \A d \in 1..2 :
              /\ 0 <= crop[d]
              /\ crop[d] + target_resolution[d] <= resized_clip[d]
              /\ Abs(crop[d] - (resized_clip[d] - target_resolution[d] - crop[d])) <= 1
        /\ \E d \in 1..2 : crop[d] = 0 /\ resized_clip[d] = target_resolution[d]

C19_Witness ==
    /\ pc = "video_resized"
    /\ clip_size = <<MaxSide, 1>>
    /\ target_resolution = <<9, 16>>
    /\ crop[1] > 0
    /\ resized_clip[1] > target_resolution[1]

(* C20: the image of a slide, as it is placed in the frame, is at least as *)
(* wide and as high as the frame, in both orientations.                    *)
C20_ImageCoversFrame ==
    pc = "image_placed" =>
        /\ image_clip[1] >= target_resolution[1]
        /\ image_clip[2] >= target_resolution[2]

----------------------------------------------------------------------------
(* SpecFormat: format_text_for_display of make_videos.py (lines 297-345)   *)
(* and of make_video.py (lines 220-269). A text is a sequence of           *)
(* characters; the operators below are Python's str methods.               *)

MaxWords == 6
WordLen == 6
MinLength == 30

Letters == <<"u", "v", "w", "x", "y", "z", "t">>

primary_break_points == << <<".", " ">>, <<"!", " ">>, <<"?", " ">> >>

conjunctions == { <<"b", "u", "t">>, <<"a", "n", "d">>, <<"o", "r">>,
                  <<"b", "e", "c", "a", "u", "s", "e">>, <<"w", "h", "e", "n">>,
                  <<"i", "f">> }

(* make_video.py has ' (' after ' - ' *)
secondary_break_points(prog) ==
    << <<":", " ">>, <<";", " ">>, <<",", " ">>, <<" ", "-", " ">> >>
    \o (IF prog = "make_video" THEN << <<" ", "(">> >> ELSE << >>)
    \o << <<" ", "b", "u", "t", " ">>, <<" ", "a", "n", "d", " ">>,
          <<" ", "o", "r", " ">>, <<" ", "b", "e", "c", "a", "u", "s", "e", " ">>,
          <<" ", "w", "h", "e", "n", " ">>, <<" ", "i", "f", " ">> >>

(* the texts of the model: words of WordLen equal letters, a different     *)
(* letter for every word, joined by one of these                           *)
Joints == { <<" ">>, <<".", " ">>, <<"!", " ">>, <<",", " ">>,
            <<" ", "a", "n", "d", " ">>, <<" ", "(">> }

RECURSIVE TextsOf(_)
TextsOf(n) ==
    LET word == [k \in 1..WordLen |-> Letters[n]]
    IN  IF n = 1 THEN {word}
        ELSE {t \o j \o word : t \in TextsOf(n - 1), j \in Joints}

Texts == UNION {TextsOf(n) : n \in 1..MaxWords}

Whitespace == {" ", "\n"}

(* str.find(sep, from): the lowest index from which sep occurs, 0 if none *)
Find(t, sep, from) ==
    LET hits == {p \in from..(Len(t) - Len(sep) + 1) :
                    \A k \in 1..Len(sep) : t[p + k - 1] = sep[k]}
    IN  IF hits = {} THEN 0 ELSE CHOOSE p \in hits : \A q \in hits : p <= q

(* str.split(sep, maxsplit); maxsplit = -1 is no limit *)
RECURSIVE Split(_, _, _)
Split(t, sep, maxsplit) ==
    LET p == Find(t, sep, 1)
    IN  IF maxsplit = 0 \/ p = 0 THEN <<t>>
        ELSE <<SubSeq(t, 1, p - 1)>>
             \o Split(SubSeq(t, p + Len(sep), Len(t)), sep, maxsplit - 1)

(* sep.join(parts) *)
RECURSIVE Join(_, _)
Join(sep, parts) ==
    IF parts = <<>> THEN <<>>
    ELSE IF Len(parts) = 1 THEN parts[1]
    ELSE parts[1] \o sep \o Join(sep, Tail(parts))

(* str.rstrip() and str.strip() *)
RECURSIVE RStrip(_)
RStrip(t) ==
    IF t # <<>> /\ t[Len(t)] \in Whitespace THEN RStrip(SubSeq(t, 1, Len(t) - 1))
    ELSE t

RECURSIVE LStrip(_)
LStrip(t) == IF t # <<>> /\ t[1] \in Whitespace THEN LStrip(Tail(t)) ELSE t

(* str.split(): the words between runs of whitespace *)
RECURSIVE Words(_)
Words(t) ==
    LET u == LStrip(t)
        ends == {p \in 1..Len(u) : u[p] \in Whitespace}
        stop == IF ends = {} THEN Len(u) + 1
                ELSE CHOOSE p \in ends : \A q \in ends : p <= q
    IN  IF u = <<>> THEN <<>>
        ELSE <<SubSeq(u, 1, stop - 1)>> \o Words(SubSeq(u, stop, Len(u)))

(* the first separator of the list that occurs in t, 0 if none does *)
FirstPresent(seps, t) ==
    LET present == {k \in 1..Len(seps) : Find(t, seps[k], 1) > 0}
    IN  IF present = {} THEN 0 ELSE CHOOSE k \in present : \A l \in present : k <= l

(* a faulty variant: the text is returned as it is *)
format_text_for_display(prog, t) ==
    LET first == FirstPresent(primary_break_points, t)
        second == FirstPresent(secondary_break_points(prog), t)
        words == Words(t)
        middle_idx == Len(words) \div 2
    IN  IF Len(t) < MinLength THEN t
        ELSE IF first > 0 THEN
            LET separator == primary_break_points[first]
                parts == Split(t, separator, -1)
            IN  Join(<<"\n">>, [k \in 1..Len(parts) |->
                                   IF k < Len(parts) THEN parts[k] \o RStrip(separator)
                                   ELSE parts[k]])
        ELSE IF second > 0 THEN
            LET separator == secondary_break_points(prog)[second]
                parts == Split(t, separator, 1)
            IN  IF RStrip(LStrip(separator)) \in conjunctions
                THEN parts[1] \o <<"\n">>
                     \o (IF prog = "make_video" THEN RStrip(LStrip(separator))
                         ELSE separator)
                     \o parts[2]
                ELSE parts[1] \o RStrip(separator) \o <<"\n">> \o parts[2]
        ELSE IF Len(words) > 5 THEN
            Join(<<" ">>, SubSeq(words, 1, middle_idx)) \o <<"\n">>
            \o Join(<<" ">>, SubSeq(words, middle_idx + 1, Len(words)))
        ELSE t

restVars == <<CONFIG, use_voice_lines, scenario, slides, voice_files,
              content_duration, total_duration, video_clip, music_clip, final_clip,
              matchVars, output, music_lib, video_lib, argVars, videos_generated,
              unprocessed_scenarios, idx, cur, report, attempts, rendered_ok,
              config_file, frameVars>>

loopVars == <<i, all_clips, current_time>>

InitFormat ==
    /\ pc = "call"
    /\ CONFIG = NoKeys
    /\ use_voice_lines = FALSE
    /\ scenario = NoKeys
    /\ slides = <<>>
    /\ voice_files = <<>>
    /\ i = 1
    /\ content_duration = 0
    /\ total_duration = 0
    /\ video_clip = Clip("video", 0, 0, 0)
    /\ music_clip = Clip("music", 0, 0, 0)
    /\ current_time = 0
    /\ all_clips = <<>>
    /\ audio_clips = <<>>
    /\ final_clip = [duration |-> 0, audio_duration |-> 0]
    /\ error = "none"
    /\ target = <<>>
    /\ options = <<>>
    /\ result = None
    /\ NoBatch
    /\ config_file = ValidConfigFile
    /\ NoFrame
    /\ program \in {"make_videos", "make_video"}
    /\ text \in Texts
    /\ formatted = <<>>
    /\ NoFonts
    /\ has_video = {}
    /\ NoAssets
    /\ NoWebsocket
    /\ NoLoadAll

Format ==
    /\ pc = "call"
    /\ formatted' = format_text_for_display(program, text)
    /\ pc' = "returned"
    /\ UNCHANGED <<restVars, loopVars, audio_clips, error, program, text, fontVars,
                   has_video, assetVars, wsVars, loadVars>>

SpecFormat == InitFormat /\ [][Format]_vars

IsSentenceEnd(t, p) == p < Len(t) /\ t[p] \in {".", "!", "?"} /\ t[p + 1] = " "

NewlineCount(t) == Cardinality({p \in 1..Len(t) : t[p] = "\n"})

(* C21: a text shorter than 30 characters is returned unchanged; a longer  *)
(* one with sentence-ending punctuation is broken after every '. ', '! '   *)
(* and '? ' and nowhere else; one without any break point is broken once,  *)
(* between its words.                                                      *)
C21_BreakPriority ==
    pc = "returned" =>
        /\ Len(text) < MinLength => formatted = text
        /\ (Len(text) >= MinLength /\ \E p \in 1..Len(text) : IsSentenceEnd(text, p)) =>
              formatted = [p \in 1..Len(text) |->
                              IF p > 1 /\ IsSentenceEnd(text, p - 1) THEN "\n"
                              ELSE text[p]]
        /\ (Len(text) >= MinLength
              /\ FirstPresent(primary_break_points, text) = 0
              /\ FirstPresent(secondary_break_points(program), text) = 0) =>
              NewlineCount(formatted) = 1

(* C28: the words of the returned text are the words of the argument, in   *)
(* the same order.                                                         *)
C28_OnlyWhitespaceChanges ==
    pc = "returned" => Words(formatted) = Words(text)

-----------------------------------------------------------------------------
(* SpecFonts: the fonts and the emoji layers of one render                 *)
(* (generate_video lines 704-709, create_text_clip lines 347-561)          *)

(* the variables of generate_video that the sections below do not model *)
NoTimeline ==
    /\ CONFIG = NoKeys
    /\ use_voice_lines = FALSE
    /\ scenario = NoKeys
    /\ voice_files = <<>>
    /\ content_duration = 0
    /\ total_duration = 0
    /\ video_clip = Clip("video", 0, 0, 0)
    /\ music_clip = Clip("music", 0, 0, 0)
    /\ audio_clips = <<>>
    /\ final_clip = [duration |-> 0, audio_duration |-> 0]
    /\ target = <<>>
    /\ options = <<>>
    /\ result = None

(* a font file either loads or fails to load; an emoji is absent, renders  *)
(* or makes create_emoji_image fail                                        *)
FontFiles == {"good", "bad"}

EmojiStates == {"none", "good", "bad"}

SlideEmojis == [slide : EmojiStates, text : EmojiStates]

(* get_random_font (lines 129-147): None without a font file, else any of  *)
(* the font files                                                          *)
get_random_font == IF font_files = {} THEN {"None"} ELSE font_files

(* os.path.basename raises TypeError for None (line 709) *)
basename_raises(path) == path = "None"

(* create_emoji_image (lines 563-651): the image, or None on any exception *)
create_emoji_image(emoji) == emoji = "good"

EmojiLayerUnchecked(emoji, font_path) == IF emoji # "none" THEN 1 ELSE 0

(* lines 487-561: one clip when there is an emoji, an emoji font and an    *)
(* image                                                                   *)
EmojiLayer(emoji, font_path) ==
    IF emoji # "none" /\ font_path # "None" /\ create_emoji_image(emoji)
    THEN 1 ELSE 0

InitFonts ==
    /\ pc = "fonts"
    /\ NoTimeline
    /\ slides \in UNION {[1..n -> Slides] : n \in 1..MaxSlides}
    /\ i = 1
    /\ current_time = 0
    /\ all_clips = <<>>
    /\ error = "none"
    /\ NoBatch
    /\ config_file = ValidConfigFile
    /\ NoFrame
    /\ NoFormat
    /\ font_files \in SUBSET FontFiles
    /\ use_consistent_font \in BOOLEAN
    /\ emoji_font_path \in {"file", "None"}
    /\ slide_emojis \in [1..Len(slides) -> SlideEmojis]
    /\ scenario_font = "None"
    /\ has_video = {}
    /\ NoAssets
    /\ NoWebsocket
    /\ NoLoadAll

UnchangedByFonts ==
    UNCHANGED <<restVars, audio_clips, formatVars, font_files, use_consistent_font,
                emoji_font_path, slide_emojis, has_video, assetVars, wsVars, loadVars>>

(* lines 704-709 with use_consistent_font: the font is chosen and its name *)
(* logged                                                                  *)
SelectFont ==
    /\ pc = "fonts"
    /\ use_consistent_font
    /\ \E font \in get_random_font :
         /\ ~basename_raises(font)
         /\ scenario_font' = font
    /\ pc' = "slides"
    /\ current_time' = StartTime
    /\ UNCHANGED <<i, all_clips, error>>
    /\ UnchangedByFonts

SelectFontRaises ==
    /\ pc = "fonts"
    /\ use_consistent_font
    /\ \E font \in get_random_font :
         /\ basename_raises(font)
         /\ scenario_font' = font
    /\ pc' = "raised"
    /\ error' = "TypeError"
    /\ UNCHANGED <<i, all_clips, current_time>>
    /\ UnchangedByFonts

NoScenarioFont ==
    /\ pc = "fonts"
    /\ ~use_consistent_font
    /\ pc' = "slides"
    /\ current_time' = StartTime
    /\ UNCHANGED <<i, all_clips, error, scenario_font>>
    /\ UnchangedByFonts

(* create_text_clip for one slide: the font of the scenario or a font of   *)
(* its own; TextClip by font name, then by font path, then with font=None; *)
(* then the emoji of the slide and the emojis of its text                  *)
TextSlide ==
    /\ pc = "slides"
    /\ i <= Len(slides)
    /\ \E font \in (IF scenario_font = "None" THEN get_random_font ELSE {scenario_font}) :
         LET slide_duration == Ticks(slides[i].duration_seconds)
             emoji_layers == EmojiLayer(slide_emojis[i].slide, emoji_font_path)
                             + EmojiLayer(slide_emojis[i].text, emoji_font_path)
         IN  /\ all_clips' = all_clips
                   \o create_text_clip(i, slide_duration, current_time, emoji_layers)
             /\ current_time' = AdvanceTime(current_time, slide_duration)
    /\ i' = i + 1
    /\ UNCHANGED <<pc, error, scenario_font>>
    /\ UnchangedByFonts

ComposeSlides ==
    /\ pc = "slides"
    /\ i > Len(slides)
    /\ pc' = "composed"
    /\ UNCHANGED <<i, all_clips, current_time, error, scenario_font>>
    /\ UnchangedByFonts

NextFonts ==
    \/ SelectFont
    \/ SelectFontRaises
    \/ NoScenarioFont
    \/ TextSlide
    \/ ComposeSlides

SpecFonts == InitFonts /\ [][NextFonts]_vars

(* C22: when no font can be obtained or loaded, the render is not aborted, *)
(* with the consistent-font option on or off.                              *)
C22_FontFallback ==
    ("good" \notin font_files) => pc # "raised"

RECURSIVE SlideStart(_)
SlideStart(k) ==
    IF k = 1 THEN StartTime
    ELSE SlideStart(k - 1) + Ticks(slides[k - 1].duration_seconds)

ClipsOf(kind, k) ==
    {p \in 1..Len(all_clips) : all_clips[p].kind = kind /\ all_clips[p].slide = k}

EmojisExpected(k) ==
    IF emoji_font_path = "None" THEN 0
    ELSE Cardinality({f \in {"slide", "text"} : slide_emojis[k][f] = "good"})

(* C23: an emoji that cannot be rendered removes only its own layer: every *)
(* slide processed so far has exactly one text overlay with its start time *)
(* and duration, every emoji that can be rendered has its layer, and the   *)
(* slides are all processed when the clips are composed.                   *)
C23_EmojiFailureSkipsLayer ==
    pc \in {"slides", "composed"} =>
        /\ \A k \in 1..(i - 1) :
             /\ Cardinality(ClipsOf("text", k)) = 1
             /\ \A p \in ClipsOf("text", k) :
                  /\ all_clips[p].start = SlideStart(k)
                  /\ all_clips[p].duration = Ticks(slides[k].duration_seconds)
             /\ Cardinality(ClipsOf("emoji", k)) = EmojisExpected(k)
        /\ pc = "composed" => i = Len(slides) + 1

C23_Witness ==
    /\ pc = "composed"
    /\ Len(slides) = 2
    /\ emoji_font_path = "file"
    /\ slide_emojis[1].slide = "bad"
    /\ slide_emojis[2].slide = "good"
    /\ Cardinality(ClipsOf("text", 1)) = 1
    /\ Cardinality(ClipsOf("emoji", 2)) >= 1

-----------------------------------------------------------------------------
(* SpecReset: reset.py / clean.py (default mode) between runs of the batch *)

(* reset_scenarios (src/reset.py lines 18-66, src/clean.py lines 49-103):  *)
(* the has_video key is removed from every scenario file that has it; a    *)
(* dry run only prints                                                     *)
reset_scenarios(dry_run) == IF dry_run THEN has_video ELSE {}

InitReset == InitBatchMarked(SUBSET Scenarios)

ResetScenarios ==
    /\ pc = "idle"
    /\ \E dry_run \in BOOLEAN :
         /\ has_video' = reset_scenarios(dry_run)
         /\ report' = IF dry_run THEN "dry_run" ELSE "reset"
    /\ UNCHANGED <<pc, CONFIG, use_voice_lines, scenario, slides, voice_files, i,
                   content_duration, total_duration, video_clip, music_clip,
                   current_time, all_clips, audio_clips, final_clip, error,
                   matchVars, output, music_lib, video_lib, argVars,
                   videos_generated, unprocessed_scenarios, idx, cur, attempts,
                   rendered_ok, config_file, frameVars, formatVars, fontVars,
                   assetVars, wsVars, loadVars>>

NextReset ==
    \/ ResetScenarios
    \/ NextBatch

SpecReset == InitReset /\ [][NextReset]_vars

(* C24: right after a reset that is not a dry run, the batch selects every *)
(* scenario as unprocessed; a dry run changes no scenario file.            *)
C24_ResetMakesUnprocessed ==
    [][(pc = "idle" /\ pc' = "idle" /\ report' = "reset" /\ has_video' = {})
          => \A s \in Scenarios : \E p \in 1..Len(find_unprocessed_scenarios') :
                 find_unprocessed_scenarios'[p] = s]_vars

(* the part of C24 that holds: a dry run leaves the marks as they are *)
DryRunChangesNothing ==
    [][(pc = "idle" /\ pc' = "idle" /\ report' = "dry_run") => has_video' = has_video]_vars

-----------------------------------------------------------------------------
(* SpecAssets: one scenario in make_voice_lines.py and in make_images.py   *)
(* (process_config lines 380-385 and process_scenario lines 208-322 of     *)
(* src/make_voice_lines.py, process_scenario lines 516-585 of              *)
(* src/make_images.py)                                                     *)

Tools == {"voice", "image"}

(* the asset file of a slide: whether it existed before the run, what it   *)
(* is now ("absent", "old" as it was before the run, "new" as generated    *)
(* by the run), and what normalize_audio and trim_silence_from_end did     *)
AssetFile(before) ==
    [before |-> before, state |-> IF before THEN "old" ELSE "absent",
     normalized |-> "none", trimmed |-> "none"]

AssetSlides == [background_image_description : BOOLEAN]

(* os.path.exists(output_path) *)
path_exists(file) == file.state # "absent"

NeverSkips(file) == FALSE

(* src/make_voice_lines.py line 286, src/make_images.py line 564 *)
SkipsExisting(file) == path_exists(file) /\ ~force_regenerate

(* shutil.rmtree of the voice lines directory *)
clean_output_directory == [k \in DOMAIN files |-> [files[k] EXCEPT !.state = "absent"]]

(* what a call that returns success or failure leaves on the file *)
Applied(success, done) == IF success THEN done ELSE "failed"

(* src/make_voice_lines.py lines 297-322, after generate_voice_line        *)
(* succeeded: normalize_audio, and inside the same branch                  *)
(* trim_silence_from_end                                                   *)
Postprocess(norm_ok, trim_ok) ==
    IF normalization_enabled
    THEN [before |-> files[i].before, state |-> "new",
          normalized |-> Applied(norm_ok, "normalized"),
          trimmed |-> IF silence_trimming_enabled
                      THEN Applied(trim_ok, "trimmed") ELSE "none"]
    ELSE [before |-> files[i].before, state |-> "new",
          normalized |-> "none", trimmed |-> "none"]

(* save_image (src/make_images.py lines 574-579) *)
SavedImage ==
    [before |-> files[i].before, state |-> "new", normalized |-> "none",
     trimmed |-> "none"]

InitAssets ==
    /\ pc = "start"
    /\ NoTimeline
    /\ slides \in UNION {[1..n -> AssetSlides] : n \in 1..MaxSlides}
    /\ i = 1
    /\ current_time = 0
    /\ all_clips = <<>>
    /\ error = "none"
    /\ NoBatch
    /\ config_file = ValidConfigFile
    /\ NoFrame
    /\ NoFormat
    /\ NoFonts
    /\ has_video = {}
    /\ tool \in Tools
    /\ files \in [1..Len(slides) -> {AssetFile(b) : b \in BOOLEAN}]
    /\ force_regenerate \in BOOLEAN
    /\ clean \in (IF tool = "voice" THEN BOOLEAN ELSE {FALSE})
    /\ normalization_enabled \in (IF tool = "voice" THEN BOOLEAN ELSE {FALSE})
    /\ silence_trimming_enabled \in (IF tool = "voice" THEN BOOLEAN ELSE {TRUE})
    /\ generated_ok \in [1..Len(slides) -> BOOLEAN]
    /\ requested = {}
    /\ NoWebsocket
    /\ NoLoadAll

UnchangedByAssets ==
    UNCHANGED <<restVars, all_clips, current_time, audio_clips, error, formatVars,
                fontVars, has_video, wsVars, loadVars, tool, force_regenerate, clean,
                normalization_enabled, silence_trimming_enabled, generated_ok>>

(* process_config with --clean (src/make_voice_lines.py lines 380-383)   *)
CleanOutputDirectory ==
    /\ pc = "start"
    /\ clean
    /\ files' = clean_output_directory
    /\ pc' = "slides"
    /\ UNCHANGED <<i, requested>>
    /\ UnchangedByAssets

StartAssets ==
    /\ pc = "start"
    /\ ~clean
    /\ pc' = "slides"
    /\ UNCHANGED <<i, files, requested>>
    /\ UnchangedByAssets

(* src/make_images.py lines 555-557 *)
SkipNoDescription ==
    /\ pc = "slides"
    /\ i <= Len(slides)
    /\ tool = "image"
    /\ ~slides[i].background_image_description
    /\ i' = i + 1
    /\ UNCHANGED <<pc, files, requested>>
    /\ UnchangedByAssets

SkipExisting ==
    /\ pc = "slides"
    /\ i <= Len(slides)
    /\ tool = "image" => slides[i].background_image_description
    /\ SkipsExisting(files[i])
    /\ i' = i + 1
    /\ UNCHANGED <<pc, files, requested>>
    /\ UnchangedByAssets

GenerateVoiceLine ==
    /\ pc = "slides"
    /\ i <= Len(slides)
    /\ tool = "voice"
    /\ ~SkipsExisting(files[i])
    /\ requested' = requested \cup {i}
    /\ IF generated_ok[i]
       THEN \E norm_ok \in BOOLEAN, trim_ok \in BOOLEAN :
              files' = [files EXCEPT ![i] = Postprocess(norm_ok, trim_ok)]
       ELSE UNCHANGED files
    /\ i' = i + 1
    /\ UNCHANGED pc
    /\ UnchangedByAssets

GenerateImage ==
    /\ pc = "slides"
    /\ i <= Len(slides)
    /\ tool = "image"
    /\ slides[i].background_image_description
    /\ ~SkipsExisting(files[i])
    /\ requested' = requested \cup {i}
    /\ files' = IF generated_ok[i] THEN [files EXCEPT ![i] = SavedImage] ELSE files
    /\ i' = i + 1
    /\ UNCHANGED pc
    /\ UnchangedByAssets

AssetsDone ==
    /\ pc = "slides"
    /\ i > Len(slides)
    /\ pc' = "done"
    /\ UNCHANGED <<i, files, requested>>
    /\ UnchangedByAssets

NextAssets ==
    \/ CleanOutputDirectory
    \/ StartAssets
    \/ SkipNoDescription
    \/ SkipExisting
    \/ GenerateVoiceLine
    \/ GenerateImage
    \/ AssetsDone

SpecAssets == InitAssets /\ [][NextAssets]_vars

ExistingUntouched ==
    /\ \A k \in DOMAIN files : files[k].before => files[k].state = "old"
    /\ \A k \in requested : ~files[k].before

(* C25 as stated: without force, every asset file that existed before the  *)
(* run is unchanged, and generation is requested only for slides whose     *)
(* file was missing.                                                       *)
C25_NoForceKeepsAssets ==
    ~force_regenerate => ExistingUntouched

(* C25, amended: the same for a run without --force and without --clean.   *)
C25_NoForceNoCleanKeepsAssets ==
    (~force_regenerate /\ ~clean) => ExistingUntouched

C25_Witness ==
    /\ pc = "done"
    /\ ~force_regenerate
    /\ ~clean
    /\ \E k \in DOMAIN files : files[k].before /\ files[k].state = "old"
    /\ \E k \in requested : files[k].state = "new"

(* C30: with silence trimming enabled, every voice line that was generated *)
(* successfully went through trim_silence_from_end, with normalization on  *)
(* or off.                                                                 *)
C30_TrimmedWhenEnabled ==
    (tool = "voice" /\ silence_trimming_enabled) =>
        \A k \in requested : generated_ok[k] => files[k].trimmed # "none"

(* the part of C30 that holds: trimming is applied when normalization is   *)
(* enabled as well                                                         *)
TrimmedWhenNormalized ==
    (tool = "voice" /\ silence_trimming_enabled /\ normalization_enabled) =>
        \A k \in requested : generated_ok[k] => files[k].trimmed # "none"

-----------------------------------------------------------------------------
(* SpecWebsocket: the receive loop of get_images_from_websocket            *)
(* (src/make_images.py lines 232-335)                                      *)

max_timeout == 60

(* the binary messages kept in output_images are counted up to MaxImages *)
MaxImages == 2

(* the node ids of the 'executing' messages of the prompt *)
Nodes == {"1", "2"}

InitWebsocket ==
    /\ pc = "recv"
    /\ NoTimeline
    /\ slides = <<>>
    /\ i = 1
    /\ current_time = 0
    /\ all_clips = <<>>
    /\ error = "none"
    /\ NoBatch
    /\ config_file = ValidConfigFile
    /\ NoFrame
    /\ NoFormat
    /\ NoFonts
    /\ has_video = {}
    /\ NoAssets
    /\ timeout_counter = 0
    /\ current_node = ""
    /\ output_images = 0
    /\ NoLoadAll

UnchangedByWebsocket ==
    UNCHANGED <<restVars, loopVars, audio_clips, error, formatVars, fontVars,
                has_video, assetVars, loadVars>>

(* ws.recv() raises WebSocketTimeoutException after one second, or another *)
(* exception (lines 325-332)                                               *)
RecvTimeout ==
    /\ pc = "recv"
    /\ timeout_counter < max_timeout
    /\ timeout_counter' = timeout_counter + 1
    /\ UNCHANGED <<pc, current_node, output_images>>
    /\ UnchangedByWebsocket

(* 'executing' for the prompt with node None (lines 263-269): break *)
RecvExecutionDone ==
    /\ pc = "recv"
    /\ timeout_counter < max_timeout
    /\ pc' = "closed"
    /\ UNCHANGED <<timeout_counter, current_node, output_images>>
    /\ UnchangedByWebsocket

(* 'executing' for the prompt with a node (lines 270-272); a message that  *)
(* names the current node, like every other JSON message, changes nothing  *)
(* the loop reads                                                          *)
RecvExecuting ==
    /\ pc = "recv"
    /\ timeout_counter < max_timeout
    /\ \E node \in Nodes : current_node' = node
    /\ UNCHANGED <<pc, timeout_counter, output_images>>
    /\ UnchangedByWebsocket

(* binary data (lines 319-324) *)
RecvBinary ==
    /\ pc = "recv"
    /\ timeout_counter < max_timeout
    /\ output_images < MaxImages
    /\ output_images' = output_images + 1
    /\ UNCHANGED <<pc, timeout_counter, current_node>>
    /\ UnchangedByWebsocket

(* the loop condition fails (line 253) *)
WaitLimitReached ==
    /\ pc = "recv"
    /\ timeout_counter >= max_timeout
    /\ pc' = "closed"
    /\ UNCHANGED <<timeout_counter, current_node, output_images>>
    /\ UnchangedByWebsocket

NextWebsocket ==
    \/ RecvTimeout
    \/ RecvExecutionDone
    \/ RecvExecuting
    \/ RecvBinary
    \/ WaitLimitReached

SpecWebsocket == InitWebsocket /\ [][NextWebsocket]_vars

(* every iteration of the loop returns: recv has a timeout of one second *)
SpecWebsocketFair == SpecWebsocket /\ WF_vars(NextWebsocket)

(* C26: the receive loop terminates, whatever the server sends. *)
C26_ReceiveLoopTerminates ==
    <>(pc = "closed")

(* the part of C26 that holds: the loop ends once the server has stopped   *)
(* sending, since then only timeouts are counted                           *)
EndsWhenServerSilent ==
    <>[][RecvTimeout \/ WaitLimitReached]_vars => <>(pc = "closed")

-----------------------------------------------------------------------------
(* SpecBatchFair: the batch, where every step of main that can be taken is *)
(* taken eventually (main is sequential code that runs without waiting)    *)

SpecBatchFair == SpecBatch /\ WF_vars(NextBatch)

(* C27: the random-pick loop terminates, also when the render of a         *)
(* scenario fails on every attempt.                                        *)
C27_RandomLoopTerminates ==
    (pc = "random_loop") ~> (pc = "idle")

-----------------------------------------------------------------------------
(* SpecLoadAll: load_all_configs (src/utils/config_utils.py lines 91-119)  *)

MaxConfigs == 3

(* a file of the configs directory: a configuration that passes            *)
(* validate_config, one that makes it raise ValueError, a file that cannot *)
(* be read (an exception that load_all_configs catches), or a file that is *)
(* not YAML (load_config calls sys.exit)                                   *)
FileKinds == {"valid", "invalid", "unreadable", "malformed"}

ConfigListings == UNION {[1..n -> FileKinds] : n \in 0..MaxConfigs}

(* load_config(path, validate=False): the project name is the file name *)
load_config(k) == [project_name |-> k, valid |-> config_listing[k] = "valid"]

(* validate_config (lines 15-45) raises ValueError *)
validate_config_raises(config) == ~config.valid

FirstEqual(list, x) == CHOOSE p \in 1..Len(list) :
    /\ list[p] = x
    /\ \A q \in 1..(p - 1) : list[q] # x

(* list.remove(x): the list without the first element equal to x *)
ListRemove(list, x) ==
    LET p == FirstEqual(list, x)
    IN  SubSeq(list, 1, p - 1) \o SubSeq(list, p + 1, Len(list))

InitLoadAll ==
    /\ pc = "load"
    /\ NoTimeline
    /\ slides = <<>>
    /\ i = 1
    /\ current_time = 0
    /\ all_clips = <<>>
    /\ error = "none"
    /\ NoBatch
    /\ config_file = ValidConfigFile
    /\ NoFrame
    /\ NoFormat
    /\ NoFonts
    /\ has_video = {}
    /\ NoAssets
    /\ NoWebsocket
    /\ config_listing \in ConfigListings
    /\ configs = <<>>
    /\ position = 0

UnchangedByLoadAll ==
    UNCHANGED <<restVars, all_clips, current_time, audio_clips, formatVars, fontVars,
                has_video, assetVars, wsVars, config_listing>>

(* lines 102-107: the file is loaded and appended *)
LoadFile ==
    /\ pc = "load"
    /\ i <= Len(config_listing)
    /\ config_listing[i] \in {"valid", "invalid"}
    /\ configs' = Append(configs, load_config(i))
    /\ i' = i + 1
    /\ UNCHANGED <<pc, error, position>>
    /\ UnchangedByLoadAll

(* lines 108-110: load_config raised an exception *)
LoadFileFails ==
    /\ pc = "load"
    /\ i <= Len(config_listing)
    /\ config_listing[i] = "unreadable"
    /\ i' = i + 1
    /\ UNCHANGED <<pc, error, configs, position>>
    /\ UnchangedByLoadAll

(* lines 183-185: sys.exit(1) in load_config is not an Exception *)
LoadFileExits ==
    /\ pc = "load"
    /\ i <= Len(config_listing)
    /\ config_listing[i] = "malformed"
    /\ pc' = "exited"
    /\ error' = "SystemExit"
    /\ UNCHANGED <<i, configs, position>>
    /\ UnchangedByLoadAll

(* line 113: the iterator of the for loop starts at index 0 *)
StartValidation ==
    /\ pc = "load"
    /\ i > Len(config_listing)
    /\ pc' = "validate"
    /\ position' = 0
    /\ UNCHANGED <<i, error, configs>>
    /\ UnchangedByLoadAll

(* lines 113-115: the iterator yields the element at its index and moves   *)
(* on; the configuration is valid                                          *)
ValidateKeeps ==
    /\ pc = "validate"
    /\ position < Len(configs)
    /\ ~validate_config_raises(configs[position + 1])
    /\ position' = position + 1
    /\ UNCHANGED <<pc, i, error, configs>>
    /\ UnchangedByLoadAll

(* lines 113-118: the configuration is invalid and removed from the list   *)
(* that is being iterated                                                  *)
ValidateRemoves ==
    /\ pc = "validate"
    /\ position < Len(configs)
    /\ validate_config_raises(configs[position + 1])
    /\ configs' = ListRemove(configs, configs[position + 1])
    /\ position' = position + 1
    /\ UNCHANGED <<pc, i, error>>
    /\ UnchangedByLoadAll

(* line 113, 119: the iterator is exhausted when its index reaches the     *)
(* length the list has by then                                             *)
ReturnConfigs ==
    /\ pc = "validate"
    /\ position >= Len(configs)
    /\ pc' = "returned"
    /\ UNCHANGED <<i, error, configs, position>>
    /\ UnchangedByLoadAll

NextLoadAll ==
    \/ LoadFile
    \/ LoadFileFails
    \/ LoadFileExits
    \/ StartValidation
    \/ ValidateKeeps
    \/ ValidateRemoves
    \/ ReturnConfigs

SpecLoadAll == InitLoadAll /\ [][NextLoadAll]_vars

(* C29: every configuration that load_all_configs returns passes           *)
(* validate_config.                                                        *)
C29_OnlyValidReturned ==
    pc = "returned" => \A p \in 1..Len(configs) : ~validate_config_raises(configs[p])

(* the part of C29 that holds: every valid configuration that was loaded   *)
(* is returned                                                             *)
ValidConfigsReturned ==
    pc = "returned" =>
        \A k \in 1..Len(config_listing) :
            config_listing[k] = "valid" => \E p \in 1..Len(configs) : configs[p] = load_config(k)

====
